---- MODULE Spec2Model ----
(***************************************************************************)
(* A model of the GameTora support-card scraper of UmamusumeCardManager:   *)
(* the level stepper (set_level), the card record builder                  *)
(* (scrape_support_card) and the batch loop (run_scraper), with the page   *)
(* they drive and the SQLite connection they write to.                     *)
(***************************************************************************)
EXTENDS Integers, Sequences, FiniteSets, TLC

VARIABLES
  \* ---- the item page (the environment of set_level) ----
  page,          \* the page's fixture: [cap, atCap, lossy, wild]
  pageLevel,     \* the level the page's own state holds
  readout,       \* what the "Level N" div shows now (it lags pageLevel)
  \* ---- one set_level call ----
  pc,            \* position in set_level: start, loop, poll, settle, done
  targetLevel,   \* the argument
  currentLevel,  \* JS local
  startLevel,    \* JS local, the level before the click being polled
  elapsed,       \* Date.now() - start of the polling loop, in ms
  actual_level,  \* the value returned
  \* ---- observation of the calls (history) ----
  firstLevel,    \* the readout when the call began
  clicks,        \* clicks issued by the current call
  highest,       \* highest level the readout showed during the call
  unanswered,    \* clicks of the call whose poll ended with no change
  callNo,        \* number of the call on this page
  prevActual,    \* the previous call's return value (0: none)
  \* ---- run_scraper and scrape_support_card ----
  links,         \* the URLs enumerated, sorted
  site,          \* what each URL serves: [title_empty, rarityImgSrc, typeImgSrc,
                 \*                        cap, first, art]
  i,             \* run_scraper's loop index (enumerate(links, 1))
  rpc,           \* position: idle, attempt, levels, hints, events, finished
  attempt,       \* scrape_support_card's loop variable
  conn,          \* the tables as the open connection sees them
  disk,          \* the tables as committed
  card_id,       \* local of scrape_support_card
  max_level,     \* local of scrape_support_card
  shown,         \* the level the loaded item page shows
  success_count,
  fail_count,
  \* ---- observation of the run (history) ----
  loads,         \* the URL of every attempt so far, in order
  raises,        \* exceptions raised so far in the run
  tries,         \* attempts started by the current call
  requested,     \* levels the current attempt asked set_level for
  log,           \* one entry per scrape_support_card call that returned
  \* ---- the pure functions, each with its inputs and its result ----
  upd,           \* compare_versions: [at, local, remote, written, verdict]
  fx,            \* extract_effects: [containers, bodyLines, effects, previous,
                 \*                   passes]
  \* ---- the application's windows ----
  deck,          \* DeckBuilderFrame and the deck_slots table: [current_deck_id,
                 \*   deck_slots, level_var, rows, notice, ops]
  dlg            \* UpdateDialog, its threads and Tk's queue: [alive, update_info,
                 \*   is_downloading, check, threads, queue, close_button,
                 \*   update_button, started, progress, last, misuse]

stepVars == <<page, pageLevel, readout, pc, targetLevel, currentLevel,
              startLevel, elapsed, actual_level, firstLevel,
              clicks, highest, unanswered, callNo, prevActual>>

scrapeVars == <<links, site, i, rpc, attempt, conn, disk, card_id, max_level,
                shown, success_count, fail_count, loads, raises, tries,
                requested, log>>

sideVars == <<upd, fx, deck, dlg>>

vars == <<stepVars, scrapeVars, sideVars>>

(***************************************************************************)
(* Program constants.                                                      *)
(***************************************************************************)
KEY_LEVELS == <<1, 25, 40, 50>>
KeyLevelSet == {KEY_LEVELS[n] : n \in 1..Len(KEY_LEVELS)}
MinLevel == 1
MaxLevel == 50
DefaultLevel == 30
PollWindowMs == 1000
PollIntervalMs == 50
\* parseInt of a readout that is not a number; NaN compares unequal to all
NaN == -1
\* no childless div whose text starts with "Level "
Missing == -2

(***************************************************************************)
(* Bounds of the model.                                                    *)
(***************************************************************************)
MaxCalls == 2
MaxClicksCounted == 16
WildSpan == 1
MaxUrls == 3
MaxRaises == 3

Max(a, b) == IF a >= b THEN a ELSE b
Min(a, b) == IF a <= b THEN a ELSE b

(***************************************************************************)
(* JavaScript comparisons on numbers that may be NaN.                      *)
(***************************************************************************)
StrictNe(a, b) == a = NaN \/ b = NaN \/ a # b
StrictEq(a, b) == ~StrictNe(a, b)
Gt(a, b) == a # NaN /\ b # NaN /\ a > b
Sub(a, b) == IF a = NaN \/ b = NaN THEN NaN ELSE a - b
Ge(a, b) == a # NaN /\ b # NaN /\ a >= b

(***************************************************************************)
(* getLevel: the readout div's number; 30 when there is no readout.        *)
(***************************************************************************)
getLevel(ro) == IF ro = Missing THEN DefaultLevel ELSE ro

(***************************************************************************)
(* The button set_level picks for currentLevel cur and target tgt, as the  *)
(* signed step of its label: -5, -1, +1, +5.                               *)
(***************************************************************************)
\* Faulty variants of the choice: only the 5-steps, only the 1-steps.
btnText_coarse(cur, tgt) == IF Gt(cur, tgt) THEN -5 ELSE 5
btnText_fine(cur, tgt) == IF Gt(cur, tgt) THEN -1 ELSE 1

\* A faulty variant: the 5-step is taken one level too early.
btnText_eager(cur, tgt) ==
  IF Gt(cur, tgt)
  THEN IF Ge(Sub(cur, tgt), 4) THEN -5 ELSE -1
  ELSE IF Ge(Sub(tgt, cur), 4) THEN 5 ELSE 1

btnText(cur, tgt) ==
  IF Gt(cur, tgt)
  THEN IF Ge(Sub(cur, tgt), 5) THEN -5 ELSE -1
  ELSE IF Ge(Sub(tgt, cur), 5) THEN 5 ELSE 1

(***************************************************************************)
(* The page.  A button moves the page's level by its step when the result  *)
(* is a level the page supports; at the edge the page either has no such   *)
(* button ("absent"), ignores the click ("dead") or goes to the edge       *)
(* ("clamp").                                                              *)
(***************************************************************************)
InRange(p, l) == MinLevel <= l /\ l <= p.cap

ButtonPresent(p, l, d) == p.atCap = "absent" => InRange(p, l + d)

PageClick(p, l, d) ==
  IF InRange(p, l + d) THEN l + d
  ELSE IF p.atCap = "clamp" THEN Max(MinLevel, Min(p.cap, l + d))
  ELSE l

\* The values a page outside the contract may show near target t.
WildReadouts(t) ==
  {NaN, Missing} \cup {l \in MinLevel..MaxLevel : l - t <= WildSpan /\ t - l <= WildSpan}

\* What the readout may show at the next read, the page holding level lvl
\* and showing ro: a page in the contract renders a click before the polling
\* window closes, a lossy page may not, a wild one shows anything.
Rendered(p, ro, lvl, t, closing) ==
  IF p.wild THEN WildReadouts(t)
  ELSE IF ro = lvl THEN {ro}
  ELSE IF p.lossy \/ ~closing THEN {ro, lvl}
  ELSE {lvl}

Count(n) == Min(n, MaxClicksCounted)

(***************************************************************************)
(* set_level, line 377: let currentLevel = getLevel().                     *)
(***************************************************************************)
\* A faulty variant: the call assumes the default level instead of reading it.
Begin_default ==
  /\ pc = "start"
  /\ UNCHANGED <<scrapeVars, sideVars>>
  /\ currentLevel' = DefaultLevel
  /\ firstLevel' = getLevel(readout)
  /\ highest' = getLevel(readout)
  /\ pc' = "loop"
  /\ UNCHANGED <<page, pageLevel, readout, targetLevel, startLevel, elapsed,
                 actual_level, clicks, unanswered, callNo, prevActual>>

Begin ==
  /\ pc = "start"
  /\ UNCHANGED <<scrapeVars, sideVars>>
  /\ currentLevel' = getLevel(readout)
  /\ firstLevel' = getLevel(readout)
  /\ highest' = getLevel(readout)
  /\ pc' = "loop"
  /\ UNCHANGED <<page, pageLevel, readout, targetLevel, startLevel, elapsed,
                 actual_level, clicks, unanswered, callNo, prevActual>>

(***************************************************************************)
(* Lines 380-397: the loop test, the choice of the button and the click.   *)
(* A wild page may have lost any button.                                   *)
(***************************************************************************)
Click ==
  /\ pc = "loop"
  /\ UNCHANGED <<scrapeVars, sideVars>>
  /\ LET d == btnText(currentLevel, targetLevel) IN
     \E there \in IF page.wild THEN BOOLEAN
                  ELSE {ButtonPresent(page, pageLevel, d)} :
       IF StrictEq(currentLevel, targetLevel) \/ ~there
       THEN /\ pc' = "settle"
            /\ UNCHANGED <<pageLevel, startLevel, elapsed, clicks>>
       ELSE /\ pageLevel' = IF page.wild THEN pageLevel
                            ELSE PageClick(page, pageLevel, d)
            /\ startLevel' = currentLevel
            /\ elapsed' = 0
            /\ clicks' = Count(clicks + 1)
            /\ pc' = "poll"
  /\ UNCHANGED <<page, readout, targetLevel, currentLevel, actual_level,
                 firstLevel, highest, unanswered, callNo, prevActual>>

(***************************************************************************)
(* Lines 398-410: one turn of the polling loop (sleep 50 ms, read the      *)
(* level), and, when the window closes with no change, the break.          *)
(***************************************************************************)
Poll ==
  /\ pc = "poll"
  /\ UNCHANGED <<scrapeVars, sideVars>>
  /\ elapsed < PollWindowMs
  /\ LET now == elapsed + PollIntervalMs IN
     \E ro \in Rendered(page, readout, pageLevel, targetLevel, now >= PollWindowMs) :
       LET newLevel == getLevel(ro) IN
         /\ readout' = ro
         /\ highest' = Max(highest, newLevel)
         /\ IF StrictNe(newLevel, startLevel)
            THEN /\ currentLevel' = newLevel
                 /\ elapsed' = 0
                 /\ pc' = "loop"
                 /\ UNCHANGED unanswered
            ELSE /\ UNCHANGED currentLevel
                 /\ IF now < PollWindowMs
                    THEN /\ elapsed' = now
                         /\ pc' = "poll"
                         /\ UNCHANGED unanswered
                    ELSE /\ elapsed' = 0
                         /\ pc' = "settle"
                         /\ unanswered' = unanswered + 1
  /\ UNCHANGED <<page, pageLevel, targetLevel, startLevel, actual_level,
                 firstLevel, clicks, callNo, prevActual>>

(***************************************************************************)
(* Lines 413-415: wait 200 ms, return getLevel().                          *)
(***************************************************************************)
\* A faulty variant: the call returns the level it was asked for.
Finish_target ==
  /\ pc = "settle"
  /\ UNCHANGED <<scrapeVars, sideVars>>
  /\ \E ro \in Rendered(page, readout, pageLevel, targetLevel, FALSE) :
       /\ readout' = ro
       /\ actual_level' = targetLevel
       /\ highest' = Max(highest, getLevel(ro))
  /\ pc' = "done"
  /\ UNCHANGED <<page, pageLevel, targetLevel, currentLevel, startLevel,
                 elapsed, firstLevel, clicks, unanswered, callNo, prevActual>>

Finish ==
  /\ pc = "settle"
  /\ UNCHANGED <<scrapeVars, sideVars>>
  /\ \E ro \in Rendered(page, readout, pageLevel, targetLevel, FALSE) :
       /\ readout' = ro
       /\ actual_level' = getLevel(ro)
       /\ highest' = Max(highest, getLevel(ro))
  /\ pc' = "done"
  /\ UNCHANGED <<page, pageLevel, targetLevel, currentLevel, startLevel,
                 elapsed, firstLevel, clicks, unanswered, callNo, prevActual>>

(***************************************************************************)
(* The caller calls set_level again with the same target on the page the   *)
(* call left (line 527 run once more).                                     *)
(***************************************************************************)
Again ==
  /\ pc = "done"
  /\ UNCHANGED <<scrapeVars, sideVars>>
  /\ callNo < MaxCalls
  /\ \E ro \in Rendered(page, readout, pageLevel, targetLevel, FALSE) : readout' = ro
  /\ prevActual' = actual_level
  /\ callNo' = callNo + 1
  /\ clicks' = 0
  /\ unanswered' = 0
  /\ pc' = "start"
  /\ UNCHANGED <<page, pageLevel, targetLevel, currentLevel, startLevel,
                 elapsed, actual_level, firstLevel, highest>>

StepNext == Begin \/ Click \/ Poll \/ Finish \/ Again

(***************************************************************************)
(* set_level as its caller sees it, on a page that answers each click at   *)
(* once or not at all: the loop of lines 380-411 run to its end.           *)
(***************************************************************************)
RECURSIVE set_level(_, _, _)
set_level(p, lvl, tgt) ==
  IF lvl = tgt THEN lvl
  ELSE LET d == btnText(lvl, tgt) IN
       IF ~ButtonPresent(p, lvl, d) THEN lvl
       ELSE LET n == PageClick(p, lvl, d) IN
            IF n = lvl THEN lvl ELSE set_level(p, n, tgt)

(***************************************************************************)
(* Parsing of the card's title images, lines 188-213.  An image source is  *)
(* the sequence of the name parts it contains; <<>> is no image.           *)
(***************************************************************************)
RarityKeys == <<"rarity_01", "rarity_02", "rarity_03">>
RARITY_MAP == [k \in {"rarity_01", "rarity_02", "rarity_03"} |->
                 IF k = "rarity_01" THEN "R" ELSE IF k = "rarity_02" THEN "SR" ELSE "SSR"]

\* The rarity images of R, SR and SSR cards.
RarityImages ==
  {<<"utx_ico", "rarity_01">>, <<"utx_ico", "rarity_02">>, <<"utx_ico", "rarity_03">>}

Contains(src, key) == \E n \in 1..Len(src) : src[n] = key

\* A faulty variant: a source with no known key gives no rarity.
parse_rarity_from_image_strict(img_src) ==
  IF \E n \in 1..Len(RarityKeys) : Contains(img_src, RarityKeys[n])
  THEN LET first == CHOOSE n \in 1..Len(RarityKeys) :
                      /\ Contains(img_src, RarityKeys[n])
                      /\ \A m \in 1..(n - 1) : ~Contains(img_src, RarityKeys[m])
       IN RARITY_MAP[RarityKeys[first]]
  ELSE "Unknown"

parse_rarity_from_image(img_src) ==
  IF img_src = <<>> THEN "R"
  ELSE IF \E n \in 1..Len(RarityKeys) : Contains(img_src, RarityKeys[n])
  THEN LET first == CHOOSE n \in 1..Len(RarityKeys) :
                      /\ Contains(img_src, RarityKeys[n])
                      /\ \A m \in 1..(n - 1) : ~Contains(img_src, RarityKeys[m])
       IN RARITY_MAP[RarityKeys[first]]
  ELSE "R"

TypeKeys == <<"obtain_00", "obtain_01", "obtain_02", "obtain_03", "obtain_04",
              "obtain_05", "obtain_06">>
TypeNames == <<"Speed", "Stamina", "Power", "Guts", "Wisdom", "Friend", "Group">>
TYPE_MAP == [k \in {TypeKeys[n] : n \in 1..Len(TypeKeys)} |->
               TypeNames[CHOOSE n \in 1..Len(TypeKeys) : TypeKeys[n] = k]]

parse_type_from_image(img_src) ==
  IF img_src = <<>> THEN "Unknown"
  ELSE IF \E n \in 1..Len(TypeKeys) : Contains(img_src, TypeKeys[n])
  THEN LET first == CHOOSE n \in 1..Len(TypeKeys) :
                      /\ Contains(img_src, TypeKeys[n])
                      /\ \A m \in 1..(n - 1) : ~Contains(img_src, TypeKeys[m])
       IN TYPE_MAP[TypeKeys[first]]
  ELSE "Unknown"

get_max_level_for_rarity(rarity) ==
  IF rarity = "SSR" THEN 50 ELSE IF rarity = "SR" THEN 45 ELSE 40

\* A faulty variant: the card's top level is left out.
levels_to_scrape_below(ml) == SelectSeq(KEY_LEVELS, LAMBDA l : l < ml)

levels_to_scrape(ml) == SelectSeq(KEY_LEVELS, LAMBDA l : l <= ml)

max_retries == 3

\* A faulty variant: the handler gives up one attempt early.
ShouldRetry_early(a) == a < max_retries - 2

\* Line 339: the handler retries unless this was the last attempt.
ShouldRetry(a) == a < max_retries - 1

(***************************************************************************)
(* The item page's content.  It shows one effect at every level and one    *)
(* more from level 30 on (below it the block reads "Unlocked at level      *)
(* 30"), each with a value that is the level shown; one hint; one event.   *)
(***************************************************************************)
PageEffectNames == <<"Speed Bonus", "Race Bonus">>
PageEffectUnlock == <<1, 30>>

extract_effects(level) ==
  LET open == SelectSeq(<<1, 2>>, LAMBDA n : PageEffectUnlock[n] <= level)
  IN [n \in 1..Len(open) |-> [name |-> PageEffectNames[open[n]], value |-> level]]

PageHints == <<"Corner Recovery">>
PageEvents == <<"Extra Training">>

\* The page as the stepper's environment: the level buttons end at the cap.
ItemPage(s) == [cap |-> s.cap, atCap |-> "absent", lossy |-> FALSE, wild |-> FALSE]

(***************************************************************************)
(* The tables of init_database (lines 64-105) and the statements run on    *)
(* them.  A row's `by` is the number of the attempt that wrote it: it is   *)
(* no column, it only tells the rows of different attempts apart.          *)
(***************************************************************************)
EmptyDb == [cards |-> {}, effects |-> <<>>, hints |-> <<>>, events |-> <<>>, seq |-> 0]

\* A faulty variant: a plain INSERT on a table with no UNIQUE url.
InsertOrReplaceCard_insert(db, url_, rarity, card_type, ml) ==
  [db EXCEPT
     !.cards = @ \cup
               {[card_id |-> db.seq + 1, url |-> url_, rarity |-> rarity,
                 card_type |-> card_type, max_level |-> ml, image_path |-> FALSE]},
     !.seq = @ + 1]

\* Lines 304-307: INSERT OR REPLACE deletes the row that holds the same
\* gametora_url (UNIQUE) and inserts a new row under the next AUTOINCREMENT id.
InsertOrReplaceCard(db, url, rarity, card_type, ml) ==
  [db EXCEPT
     !.cards = {c \in @ : c.url # url} \cup
               {[card_id |-> db.seq + 1, url |-> url, rarity |-> rarity,
                 card_type |-> card_type, max_level |-> ml, image_path |-> FALSE]},
     !.seq = @ + 1]

(***************************************************************************)
(* download_card_image, lines 215-254, by what happens in it: the image is *)
(* saved; no image is found on the page (line 239); requests.get raises    *)
(* (HTTP error, timeout) or answers with another status than 200 (line     *)
(* 246); the file cannot be written.  It returns a path in the first case  *)
(* and None in every other: the except of line 251 catches what is raised. *)
(***************************************************************************)
ArtOutcomes == {"saved", "no_image", "http_error", "status_404", "timeout", "write_error"}

download_card_image(outcome) == outcome = "saved"

\* Line 310: SELECT card_id FROM support_cards WHERE gametora_url = ?
SelectCardId(db, url) == (CHOOSE c \in db.cards : c.url = url).card_id

\* Line 316: UPDATE support_cards SET image_path = ? WHERE card_id = ?
UpdateImagePath(db, cid) ==
  [db EXCEPT !.cards = {IF c.card_id = cid THEN [c EXCEPT !.image_path = TRUE] ELSE c : c \in @}]

\* Lines 320-323: DELETE FROM support_effects / hints / events WHERE card_id = ?
ClearCard(db, cid) ==
  [db EXCEPT !.effects = SelectSeq(@, LAMBDA r : r.card_id # cid),
             !.hints = SelectSeq(@, LAMBDA r : r.card_id # cid),
             !.events = SelectSeq(@, LAMBDA r : r.card_id # cid)]

\* Lines 530-534: one INSERT per extracted effect, under the level returned.
EffectRows(cid, level, effects, by) ==
  [n \in 1..Len(effects) |->
     [card_id |-> cid, level |-> level, effect_name |-> effects[n].name,
      effect_value |-> effects[n].value, by |-> by]]

\* Lines 564-568 and 600-604.
InsertNamed(rows, cid, names, by) ==
  rows \o [n \in 1..Len(names) |-> [card_id |-> cid, name |-> names[n], by |-> by]]

url == links[i]
serial == Len(loads)

\* A faulty variant: a failed item ends the batch.
Return_abort(ok, why, n) ==
  /\ log' = Append(log, [url |-> url, ok |-> ok, why |-> why, tries |-> n,
                         raised |-> IF why = "exhausted" THEN attempt + 1 ELSE attempt])
  /\ success_count' = IF ok THEN success_count + 1 ELSE success_count
  /\ fail_count' = IF ok THEN fail_count ELSE fail_count + 1
  /\ i' = IF ok THEN i + 1 ELSE Len(links) + 1
  /\ rpc' = "idle"
  /\ attempt' = 0
  /\ tries' = 0

(***************************************************************************)
(* scrape_support_card returns to run_scraper (lines 643-646).             *)
(***************************************************************************)
Return(ok, why, n) ==
  /\ log' = Append(log, [url |-> url, ok |-> ok, why |-> why, tries |-> n,
                         raised |-> IF why = "exhausted" THEN attempt + 1 ELSE attempt])
  /\ success_count' = IF ok THEN success_count + 1 ELSE success_count
  /\ fail_count' = IF ok THEN fail_count ELSE fail_count + 1
  /\ i' = i + 1
  /\ rpc' = "idle"
  /\ attempt' = 0
  /\ tries' = 0

(***************************************************************************)
(* run_scraper, line 641-643: the next URL is handed to                    *)
(* scrape_support_card.                                                    *)
(***************************************************************************)
CallScrape ==
  /\ rpc = "idle"
  /\ UNCHANGED <<stepVars, sideVars>>
  /\ i <= Len(links)
  /\ rpc' = "attempt"
  /\ attempt' = 0
  /\ tries' = 0
  /\ UNCHANGED <<links, site, i, conn, disk, card_id, max_level, shown,
                 success_count, fail_count, loads, raises, requested, log>>

\* A faulty variant: the card row is written before the name is tested.
LoadEmpty_writes ==
  /\ rpc = "attempt"
  /\ UNCHANGED <<stepVars, sideVars>>
  /\ site[url].title_empty
  /\ loads' = Append(loads, url)
  /\ requested' = <<>>
  /\ conn' = InsertOrReplaceCard(conn, url, "R", "Unknown", 40)
  /\ disk' = conn'
  /\ Return(FALSE, "empty", tries + 1)
  /\ UNCHANGED <<links, site, card_id, max_level, shown, raises>>

(***************************************************************************)
(* Lines 261-293: the page loads and its title gives no name: return       *)
(* False, before any statement is run.                                     *)
(***************************************************************************)
LoadEmpty ==
  /\ rpc = "attempt"
  /\ UNCHANGED <<stepVars, sideVars>>
  /\ site[url].title_empty
  /\ loads' = Append(loads, url)
  /\ requested' = <<>>
  /\ Return(FALSE, "empty", tries + 1)
  /\ UNCHANGED <<links, site, conn, disk, card_id, max_level, shown, raises>>

\* A faulty variant: a failed art download gives the attempt up.
LoadCard_artfatal ==
  /\ rpc = "attempt"
  /\ UNCHANGED <<stepVars, sideVars>>
  /\ ~site[url].title_empty
  /\ \E rarity \in {parse_rarity_from_image(site[url].rarityImgSrc)} :
     \E ml \in {get_max_level_for_rarity(rarity)} :
     \E card_type \in {parse_type_from_image(site[url].typeImgSrc)} :
     \E db1 \in {InsertOrReplaceCard(conn, url, rarity, card_type, ml)} :
     \E cid \in {SelectCardId(db1, url)} :
        IF download_card_image(site[url].art)
        THEN /\ disk' = UpdateImagePath(db1, cid)
             /\ conn' = ClearCard(UpdateImagePath(db1, cid), cid)
             /\ card_id' = cid
             /\ max_level' = ml
             /\ shown' = site[url].first
             /\ rpc' = "levels"
             /\ UNCHANGED attempt
        ELSE /\ disk' = db1
             /\ conn' = db1
             /\ card_id' = cid
             /\ max_level' = ml
             /\ shown' = site[url].first
             /\ rpc' = "attempt"
             /\ attempt' = IF ShouldRetry(attempt) THEN attempt + 1 ELSE attempt
  /\ loads' = Append(loads, url)
  /\ requested' = <<>>
  /\ tries' = tries + 1
  /\ UNCHANGED <<links, site, i, success_count, fail_count, raises, log>>

(***************************************************************************)
(* Lines 261-324: the page loads; the card row is written and committed,   *)
(* the art is downloaded or not, the card's old rows are deleted.          *)
(***************************************************************************)
LoadCard ==
  /\ rpc = "attempt"
  /\ UNCHANGED <<stepVars, sideVars>>
  /\ ~site[url].title_empty
  /\ \E rarity \in {parse_rarity_from_image(site[url].rarityImgSrc)} :
     \E ml \in {get_max_level_for_rarity(rarity)} :
     \E card_type \in {parse_type_from_image(site[url].typeImgSrc)} :
     \E db1 \in {InsertOrReplaceCard(conn, url, rarity, card_type, ml)} :
     \E cid \in {SelectCardId(db1, url)} :
     \E db2 \in {IF download_card_image(site[url].art)
                  THEN UpdateImagePath(db1, cid) ELSE db1} :
        /\ disk' = db2
        /\ conn' = ClearCard(db2, cid)
        /\ card_id' = cid
        /\ max_level' = ml
        /\ shown' = site[url].first
  /\ loads' = Append(loads, url)
  /\ requested' = <<>>
  /\ tries' = tries + 1
  /\ rpc' = "levels"
  /\ UNCHANGED <<links, site, i, attempt, success_count, fail_count, raises, log>>

(***************************************************************************)
(* Lines 522-536, scrape_effects_key_levels: for each level to scrape,     *)
(* set_level, extract_effects and one INSERT per effect under the level    *)
(* set_level returned.                                                     *)
(***************************************************************************)
\* The level set_level returns in each turn, the page showing `first` before
\* the first one.
ActualLevels(p, levels, first) ==
  LET a[n \in 0..Len(levels)] ==
        IF n = 0 THEN first ELSE set_level(p, a[n - 1], levels[n])
  IN [n \in 1..Len(levels) |-> a[n]]

RECURSIVE Flatten(_)
Flatten(seqs) == IF seqs = <<>> THEN <<>> ELSE Head(seqs) \o Flatten(Tail(seqs))

KeyLevelRows(actuals, cid, by) ==
  Flatten([n \in 1..Len(actuals) |->
             EffectRows(cid, actuals[n], extract_effects(actuals[n]), by)])

Levels ==
  /\ rpc = "levels"
  /\ UNCHANGED <<stepVars, sideVars>>
  /\ \E levels \in {levels_to_scrape(max_level)} :
     \E actuals \in {ActualLevels(ItemPage(site[url]), levels, shown)} :
        /\ conn' = [conn EXCEPT !.effects = @ \o KeyLevelRows(actuals, card_id, serial)]
        /\ requested' = levels
        /\ shown' = actuals[Len(actuals)]
  /\ rpc' = "hints"
  /\ UNCHANGED <<links, site, i, attempt, disk, card_id, max_level,
                 success_count, fail_count, loads, raises, tries, log>>

(***************************************************************************)
(* Lines 538-571: scrape_hints.                                            *)
(***************************************************************************)
Hints ==
  /\ rpc = "hints"
  /\ UNCHANGED <<stepVars, sideVars>>
  /\ conn' = [conn EXCEPT !.hints = InsertNamed(@, card_id, PageHints, serial)]
  /\ rpc' = "events"
  /\ UNCHANGED <<links, site, i, attempt, disk, card_id, max_level, shown,
                 success_count, fail_count, loads, raises, tries, requested, log>>

(***************************************************************************)
(* Lines 573-607 and 334-335: scrape_events, the commit, return True.      *)
(***************************************************************************)
Events ==
  /\ rpc = "events"
  /\ UNCHANGED <<stepVars, sideVars>>
  /\ LET db == [conn EXCEPT !.events = InsertNamed(@, card_id, PageEvents, serial)]
     IN conn' = db /\ disk' = db
  /\ Return(TRUE, "done", tries)
  /\ UNCHANGED <<links, site, card_id, max_level, shown, loads, raises,
                 requested>>

(***************************************************************************)
(* Lines 337-344: a call of the attempt raised; nothing is rolled back.    *)
(* The handler sleeps and starts the next attempt, or gives the URL up.    *)
(* The exception strikes in the page load (nothing written yet), in the    *)
(* level loop (the card row committed, the deletes pending) or in          *)
(* scrape_events (the effect and hint rows pending too); one in            *)
(* scrape_hints leaves a part of what one in scrape_events leaves.         *)
(***************************************************************************)
Raise ==
  /\ rpc \in {"attempt", "levels", "events"}
  /\ UNCHANGED <<stepVars, sideVars>>
  /\ raises < MaxRaises
  /\ raises' = raises + 1
  /\ loads' = IF rpc = "attempt" THEN Append(loads, url) ELSE loads
  /\ LET n == IF rpc = "attempt" THEN tries + 1 ELSE tries IN
       IF ShouldRetry(attempt)
       THEN /\ attempt' = attempt + 1
            /\ tries' = n
            /\ rpc' = "attempt"
            /\ UNCHANGED <<i, success_count, fail_count, log>>
       ELSE Return(FALSE, "exhausted", n)
  /\ UNCHANGED <<links, site, conn, disk, card_id, max_level, shown,
                 requested>>

(***************************************************************************)
(* Lines 656-658: the loop is over; the connection is closed, which drops  *)
(* what it had not committed.                                              *)
(***************************************************************************)
Close ==
  /\ rpc = "idle"
  /\ UNCHANGED <<stepVars, sideVars>>
  /\ i > Len(links)
  /\ conn' = disk
  /\ rpc' = "finished"
  /\ UNCHANGED <<links, site, i, attempt, disk, card_id, max_level, shown,
                 success_count, fail_count, loads, raises, tries, requested, log>>

ScrapeNext ==
  CallScrape \/ LoadEmpty \/ LoadCard \/ Levels \/ Hints \/ Events \/ Raise \/ Close

(***************************************************************************)
(* The state after init_database and scrape_all_support_links.             *)
(***************************************************************************)
ScrapeStart(ls, st) ==
  /\ links = ls
  /\ site = st
  /\ i = 1
  /\ rpc = "idle"
  /\ attempt = 0
  /\ conn = EmptyDb
  /\ disk = EmptyDb
  /\ card_id = 0
  /\ max_level = 0
  /\ shown = 0
  /\ success_count = 0
  /\ fail_count = 0
  /\ loads = <<>>
  /\ raises = 0
  /\ tries = 0
  /\ requested = <<>>
  /\ log = <<>>

ScrapeIdle == ScrapeStart(<<>>, <<>>)

\* No version is being compared, no effect list is being extracted: the
\* variable of a part of the program that is not running holds nothing.
UpdIdle == upd = <<>>

FxIdle == fx = <<>>

\* Line 154: six slots, numbered from 0; 0 stands for None.
SlotPositions == 0..5

\* The deck builder before a deck is selected (lines 151-156, 72).
NoDeck ==
  [current_deck_id |-> 0, deck_slots |-> [p \in SlotPositions |-> 0],
   level_var |-> [p \in SlotPositions |-> 50], rows |-> <<>>,
   notice |-> "none", ops |-> 0]

\* The deck builder is not open.
DeckIdle == deck = <<>>

\* No update dialog is open.
DlgIdle == dlg = <<>>

SideIdle == UpdIdle /\ FxIdle /\ DeckIdle /\ DlgIdle

(***************************************************************************)
(* Initial states: a loaded page showing level l, and a first call         *)
(* set_level(t).                                                           *)
(***************************************************************************)
StepStart(p, l, ro, t) ==
  /\ page = p
  /\ pageLevel = l
  /\ readout = ro
  /\ pc = "start"
  /\ targetLevel = t
  /\ currentLevel = 0
  /\ startLevel = 0
  /\ elapsed = 0
  /\ actual_level = 0
  /\ firstLevel = 0
  /\ clicks = 0
  /\ highest = 0
  /\ unanswered = 0
  /\ callNo = 1
  /\ prevActual = 0

InitCall(p, l, ro, t) == ScrapeIdle /\ StepStart(p, l, ro, t) /\ SideIdle

StepIdle ==
  StepStart([cap |-> MaxLevel, atCap |-> "absent", lossy |-> FALSE, wild |-> FALSE],
            MinLevel, MinLevel, MinLevel)

Caps == {40, 45, 50}
EdgeStyles == {"absent", "dead", "clamp"}

\* The page of the convergence test: levels 1..50, every click answered.
FullPages == [cap : {MaxLevel}, atCap : {"dead"}, lossy : {FALSE}, wild : {FALSE}]
\* Pages of the three rarities, answering in time or not.
CardPages == [cap : Caps, atCap : EdgeStyles, lossy : BOOLEAN, wild : {FALSE}]
\* Pages that keep no contract at all.
WildPages == [cap : {MaxLevel}, atCap : {"dead"}, lossy : {TRUE}, wild : {TRUE}]

InitFull ==
  \E p \in FullPages, l \in MinLevel..MaxLevel, t \in MinLevel..MaxLevel :
    InitCall(p, l, l, t)

InitStep ==
  \E p \in CardPages, t \in KeyLevelSet :
    \E l \in MinLevel..p.cap : InitCall(p, l, l, t)

InitWild ==
  \E p \in WildPages, t \in KeyLevelSet :
    \E ro \in WildReadouts(t) : InitCall(p, t, ro, t)

\* What a URL may serve: an SSR card; a card whose rarity image says SSR on
\* a page whose level buttons end at 40, so that set_level(50) stalls at 40;
\* a page with no title.
SiteKinds ==
  { [title_empty |-> FALSE, rarityImgSrc |-> <<"utx_ico", "rarity_03">>,
     typeImgSrc |-> <<"utx_ico", "obtain_00">>, cap |-> 50,
     first |-> 50, art |-> "saved"],
    [title_empty |-> FALSE, rarityImgSrc |-> <<"utx_ico", "rarity_03">>,
     typeImgSrc |-> <<"utx_ico", "obtain_04">>, cap |-> 40,
     first |-> 1, art |-> "no_image"],
    [title_empty |-> TRUE, rarityImgSrc |-> <<>>, typeImgSrc |-> <<>>, cap |-> 40,
     first |-> 40, art |-> "no_image"] }

InitScrape ==
  \E n \in 0..MaxUrls :
    \E st \in [1..n -> SiteKinds] :
      ScrapeStart([k \in 1..n |-> k], st) /\ StepIdle /\ SideIdle

ScrapeSpec == InitScrape /\ [][ScrapeNext]_vars

(***************************************************************************)
(* A run over one URL, with every kind of title images and every outcome   *)
(* of the art download.                                                    *)
(***************************************************************************)
\* Rarity image sources: none, the three known, one with an unknown rarity
\* number, one that contains two keys.
RaritySources ==
  RarityImages \cup {<<>>, <<"utx_ico", "rarity_04">>, <<"rarity_03", "rarity_01">>}

\* Type image sources: none, the seven known, one with an unknown number.
TypeSources ==
  {<<>>, <<"utx_ico", "obtain_07">>} \cup
  {<<"utx_ico", TypeKeys[n]>> : n \in 1..Len(TypeKeys)}

CardKinds ==
  {[title_empty |-> FALSE, rarityImgSrc |-> r, typeImgSrc |-> t,
    cap |-> get_max_level_for_rarity(parse_rarity_from_image(r)),
    first |-> get_max_level_for_rarity(parse_rarity_from_image(r)),
    art |-> a] : r \in RaritySources, t \in TypeSources, a \in ArtOutcomes}
  \cup {[title_empty |-> TRUE, rarityImgSrc |-> <<>>, typeImgSrc |-> <<>>,
         cap |-> 40, first |-> 40, art |-> "no_image"]}

InitCard == \E k \in CardKinds : ScrapeStart(<<1>>, <<k>>) /\ StepIdle /\ SideIdle

CardSpec == InitCard /\ [][ScrapeNext]_vars

\* The browser keeps running the call's continuations and timers.
FullSpec == InitFull /\ [][StepNext]_vars /\ WF_vars(StepNext)
StepSpec == InitStep /\ [][StepNext]_vars /\ WF_vars(StepNext)
WildSpec == InitWild /\ [][StepNext]_vars /\ WF_vars(StepNext)

Abs(n) == IF n < 0 THEN -n ELSE n

(***************************************************************************)
(* scrape_effects_key_levels step by step (lines 522-536): for each level  *)
(* of levels_to_scrape, a set_level call run through Begin, Click, Poll    *)
(* and Finish on the loaded item page, then extract_effects and the        *)
(* INSERTs.  pc = "idle" between the passes; `requested` holds the levels  *)
(* asked for so far.                                                       *)
(***************************************************************************)
\* Lines 526-527: the next turn of the loop calls set_level(page, level).
AskLevel ==
  /\ rpc = "levels"
  /\ pc = "idle"
  /\ \E levels \in {levels_to_scrape(max_level)} :
       /\ Len(requested) < Len(levels)
       /\ targetLevel' = levels[Len(requested) + 1]
       /\ requested' = Append(requested, levels[Len(requested) + 1])
  /\ pc' = "start"
  /\ callNo' = callNo + 1
  /\ prevActual' = actual_level
  /\ clicks' = 0
  /\ unanswered' = 0
  /\ UNCHANGED <<page, pageLevel, readout, currentLevel, startLevel, elapsed,
                 actual_level, firstLevel, highest>>
  /\ UNCHANGED <<links, site, i, rpc, attempt, conn, disk, card_id, max_level,
                 shown, success_count, fail_count, loads, raises, tries, log>>
  /\ UNCHANGED sideVars

\* A faulty variant: the rows are stored under the level asked for.
Extract_requested ==
  /\ rpc = "levels"
  /\ pc = "done"
  /\ \E ro \in Rendered(page, readout, pageLevel, targetLevel, FALSE) :
       /\ readout' = ro
       /\ conn' = [conn EXCEPT !.effects =
                     @ \o EffectRows(card_id, targetLevel,
                                     extract_effects(getLevel(ro)), serial)]
  /\ pc' = "idle"
  /\ UNCHANGED <<page, pageLevel, targetLevel, currentLevel, startLevel,
                 elapsed, actual_level, firstLevel, clicks, highest,
                 unanswered, callNo, prevActual>>
  /\ UNCHANGED <<links, site, i, rpc, attempt, disk, card_id, max_level, shown,
                 success_count, fail_count, loads, raises, tries, requested, log>>
  /\ UNCHANGED sideVars

\* Lines 528-534: set_level has returned; extract_effects reads what the
\* page shows now, and each effect is inserted under the level returned.
Extract ==
  /\ rpc = "levels"
  /\ pc = "done"
  /\ \E ro \in Rendered(page, readout, pageLevel, targetLevel, FALSE) :
       /\ readout' = ro
       /\ conn' = [conn EXCEPT !.effects =
                     @ \o EffectRows(card_id, actual_level,
                                     extract_effects(getLevel(ro)), serial)]
  /\ pc' = "idle"
  /\ UNCHANGED <<page, pageLevel, targetLevel, currentLevel, startLevel,
                 elapsed, actual_level, firstLevel, clicks, highest,
                 unanswered, callNo, prevActual>>
  /\ UNCHANGED <<links, site, i, rpc, attempt, disk, card_id, max_level, shown,
                 success_count, fail_count, loads, raises, tries, requested, log>>
  /\ UNCHANGED sideVars

\* Line 526: the loop is over; scrape_effects_key_levels returns.
LevelsDone ==
  /\ rpc = "levels"
  /\ pc = "idle"
  /\ Len(requested) = Len(levels_to_scrape(max_level))
  /\ rpc' = "hints"
  /\ shown' = getLevel(readout)
  /\ UNCHANGED <<stepVars, sideVars>>
  /\ UNCHANGED <<links, site, i, attempt, conn, disk, card_id, max_level,
                 success_count, fail_count, loads, raises, tries, requested, log>>

LevelNext == AskLevel \/ Begin \/ Click \/ Poll \/ Finish \/ Extract \/ LevelsDone

\* Item pages: the level buttons end at the cap; the full-range page may
\* answer a click late.
LevelPages == {p \in CardPages : p.atCap = "absent" /\ (p.lossy => p.cap = MaxLevel)}

\* The state in which line 326 calls scrape_effects_key_levels: the first
\* attempt for the only URL has loaded page p showing level l, written the
\* card row and committed it.
LevelStart(img, p, l) ==
  \E rarity \in {parse_rarity_from_image(img)} :
  \E db \in {InsertOrReplaceCard(EmptyDb, 1, rarity, "Speed",
                                  get_max_level_for_rarity(rarity))} :
    /\ links = <<1>>
    /\ site = <<[title_empty |-> FALSE, rarityImgSrc |-> img,
                 typeImgSrc |-> <<"utx_ico", "obtain_00">>, cap |-> p.cap,
                 first |-> l, art |-> "no_image"]>>
    /\ i = 1
    /\ rpc = "levels"
    /\ attempt = 0
    /\ conn = db
    /\ disk = db
    /\ card_id = SelectCardId(db, 1)
    /\ max_level = get_max_level_for_rarity(rarity)
    /\ shown = l
    /\ success_count = 0
    /\ fail_count = 0
    /\ loads = <<1>>
    /\ raises = 0
    /\ tries = 1
    /\ requested = <<>>
    /\ log = <<>>
    /\ page = p
    /\ pageLevel = l
    /\ readout = l
    /\ pc = "idle"
    /\ targetLevel = l
    /\ currentLevel = 0
    /\ startLevel = 0
    /\ elapsed = 0
    /\ actual_level = 0
    /\ firstLevel = 0
    /\ clicks = 0
    /\ highest = 0
    /\ unanswered = 0
    /\ callNo = 0
    /\ prevActual = 0
    /\ SideIdle

InitLevels ==
  \E img \in RarityImages, p \in LevelPages :
    \E l \in {MinLevel, p.cap} : LevelStart(img, p, l)

LevelSpec == InitLevels /\ [][LevelNext]_vars /\ WF_vars(LevelNext)

\* C1: on the full-range page that answers every click, every call ends, and
\* what ends it is the readout showing the target: the call returns the
\* target, whatever levels in 1..50 it started from and was asked for.
C1_Convergence ==
  /\ [](pc \in {"settle", "done"} =>
          /\ currentLevel = targetLevel
          /\ readout = targetLevel
          /\ unanswered = 0)
  /\ [](pc = "done" => actual_level = targetLevel)
  /\ ((pc = "start") ~> (pc = "done"))

C1_Witness ==
  pc = "done" /\ callNo = 1 /\ firstLevel = 50 /\ targetLevel = 1 /\ actual_level = 1

\* C2 as stated: a call from level s to target t issues at most
\* ceil(|t-s|/5) + (1 if (t-s) mod 5 # 0 else 0) clicks.
C2_ClaimedBound ==
  pc = "done" /\ callNo = 1 =>
    LET delta == targetLevel - firstLevel IN
      clicks <= ((Abs(delta) + 4) \div 5) + (IF delta % 5 # 0 THEN 1 ELSE 0)

\* C2 amended: a call from level s to target t issues at most
\* floor(|t-s|/5) + (|t-s| mod 5) clicks, and by its return exactly that many.
C2_GreedyBound ==
  callNo = 1 /\ pc # "start" =>
    LET delta == targetLevel - firstLevel
        bound == (Abs(delta) \div 5) + (Abs(delta) % 5)
    IN /\ clicks <= bound
       /\ pc = "done" => clicks = bound

C2_Witness ==
  pc = "done" /\ callNo = 1 /\ targetLevel - firstLevel = 49 /\ clicks = 13

(***************************************************************************)
(* The store and the run as the properties below read them.               *)
(***************************************************************************)
Range(f) == {f[n] : n \in DOMAIN f}
Last(q) == q[Len(q)]
\* The attempts (by their number) made for URL u.
AttemptsOf(u) == {n \in 1..Len(loads) : loads[n] = u}
\* The rows of the committed store, of whatever table, as (table, row).
StoredRows ==
  {<<"effect", r>> : r \in Range(disk.effects)} \cup
  {<<"hint", r>> : r \in Range(disk.hints)} \cup
  {<<"event", r>> : r \in Range(disk.events)}
\* The committed effect rows of the card stored for URL u.
EffectsOfUrl(u) ==
  {r \in Range(disk.effects) : \E c \in disk.cards : c.url = u /\ c.card_id = r.card_id}

\* C3: support_effects holds at most one row per (card_id, level,
\* effect_name), in the committed store and in the connection's view of it.
C3_UniqueSamples ==
  \A db \in {disk, conn} :
    \A m, n \in 1..Len(db.effects) :
      /\ db.effects[m].card_id = db.effects[n].card_id
      /\ db.effects[m].level = db.effects[n].level
      /\ db.effects[m].effect_name = db.effects[n].effect_name
      => m = n

\* C4: when scrape_support_card has just returned True for a URL, every
\* effect, hint and event row in the store that was scraped from that URL
\* was written by the attempt that completed.
C4_NoStaleRows ==
  rpc = "idle" /\ log # <<>> /\ Last(log).ok =>
    \A tr \in StoredRows :
      loads[tr[2].by] = Last(log).url =>
        \A n \in AttemptsOf(Last(log).url) : n <= tr[2].by

\* C5: a call makes at most 3 attempts, each with its own page load; it
\* returns True at the first attempt that completes, so after as many
\* attempts as raised plus one; it returns False only when the third attempt
\* raised or when a page loaded with no name in its title.
C5_RetryBudget ==
  /\ tries <= max_retries
  /\ attempt < max_retries
  /\ \A k \in 1..Len(log) :
       LET e == log[k] IN
         /\ e.tries <= max_retries
         /\ Cardinality(AttemptsOf(e.url)) = e.tries
         /\ e.ok => e.why = "done" /\ e.tries = e.raised + 1
         /\ ~e.ok => \/ e.why = "empty" /\ e.tries = e.raised + 1
                     \/ e.why = "exhausted" /\ e.tries = max_retries
                                            /\ e.raised = max_retries

C5_Witness ==
  \E k \in 1..Len(log) : log[k].ok /\ log[k].tries = 3 /\ log[k].raised = 2

\* C6: the attempt whose page loads with no name in its title returns
\* False in that step: the run moves to the next URL, counts one failure,
\* and neither the connection nor the store has changed.
C6_EmptyTitleSkips ==
  [][rpc = "attempt" /\ site[url].title_empty /\ raises' = raises =>
       /\ rpc' = "idle"
       /\ i' = i + 1
       /\ fail_count' = fail_count + 1
       /\ success_count' = success_count
       /\ conn' = conn
       /\ disk' = disk
       /\ Len(log') = Len(log) + 1
       /\ ~Last(log').ok
       /\ Last(log').url = url
       /\ Len(loads') = Len(loads) + 1]_vars

C6_Witness ==
  /\ rpc = "finished"
  /\ \E k \in 1..Len(log) :
       /\ log[k].why = "empty"
       /\ log[k].tries = 1
       /\ Cardinality(AttemptsOf(log[k].url)) = 1
       /\ \A c \in disk.cards : c.url # log[k].url
       /\ EffectsOfUrl(log[k].url) = {}

\* C7: scrape_support_card has returned once for each URL gone by, in the
\* order of the list, and the two counts add up to their number; at the end
\* that is every URL.  Of 3 URLs whose 2nd has no name in its title and
\* whose others complete, 2 succeed and 1 fails, and the store holds effect
\* rows of the 1st and of the 3rd.
C7_BatchTolerance ==
  /\ Len(log) = i - 1
  /\ \A k \in 1..Len(log) : log[k].url = links[k]
  /\ success_count = Cardinality({k \in 1..Len(log) : log[k].ok})
  /\ fail_count = Cardinality({k \in 1..Len(log) : ~log[k].ok})
  /\ success_count + fail_count = Len(log)
  /\ rpc = "finished" =>
       /\ Len(log) = Len(links)
       /\ success_count + fail_count = Len(links)
       /\ Len(links) = 3 /\ site[2].title_empty /\ log[1].ok /\ log[3].ok =>
            /\ success_count = 2
            /\ fail_count = 1
            /\ EffectsOfUrl(links[1]) # {}
            /\ EffectsOfUrl(links[3]) # {}

C7_Witness ==
  /\ rpc = "finished" /\ Len(links) = 3
  /\ site[2].title_empty /\ log[1].ok /\ log[3].ok
  /\ success_count = 2 /\ fail_count = 1
  /\ EffectsOfUrl(links[1]) # {} /\ EffectsOfUrl(links[3]) # {}

\* C8: when the target lies beyond the cap of the page, the call ends, and
\* it returns the level the page shows, which is the highest level the page
\* showed during the call and is no level beyond the cap.
C8_BoundaryStall ==
  /\ [](pc = "done" /\ targetLevel > page.cap =>
          /\ actual_level = getLevel(readout)
          /\ actual_level = highest
          /\ actual_level <= page.cap
          /\ actual_level >= firstLevel)
  /\ ((pc = "start" /\ targetLevel > page.cap) ~> (pc = "done"))

C8_Witness ==
  /\ pc = "done" /\ callNo = 1 /\ ~page.lossy
  /\ page.cap = 40 /\ targetLevel = 50 /\ firstLevel = 1 /\ actual_level = 40

\* C9: whatever the page shows after a click and whichever buttons it has,
\* every call of set_level returns.
C9_NeverHangs == (pc = "start") ~> (pc = "done")

\* C10 as stated: a second set_level(t) on the page the first left returns
\* what the first returned, and clicks nothing when the first returned t.
C10_Idempotent ==
  pc = "done" /\ callNo = 2 =>
    /\ actual_level = prevActual
    /\ prevActual = targetLevel => clicks = 0

\* C10 amended: on a page that answers a click within the polling window or
\* not at all, a second set_level(t) returns what the first returned; and
\* on any page it clicks nothing when the first call returned t.
C10_IdempotentWhenAnswered ==
  pc = "done" /\ callNo = 2 =>
    /\ ~page.lossy => actual_level = prevActual
    /\ prevActual = targetLevel => clicks = 0

C10_Witness ==
  /\ pc = "done" /\ callNo = 2 /\ ~page.lossy /\ page.cap = 45
  /\ targetLevel = 50 /\ prevActual = 45 /\ actual_level = 45 /\ clicks = 1

\* The largest step a button makes (lines 384 and 387).
MaxStep == 5

\* How far the page's level lies beyond the target, seen from the level the
\* call started at.
Passed ==
  IF firstLevel < targetLevel THEN Max(0, pageLevel - targetLevel)
  ELSE IF firstLevel > targetLevel THEN Max(0, targetLevel - pageLevel)
  ELSE 0

\* The step chosen is no larger than the distance left, and the call stops
\* at its first unanswered click.
StepWithinDistance ==
  /\ pc = "loop" /\ currentLevel # targetLevel =>
       Abs(btnText(currentLevel, targetLevel)) <= Abs(targetLevel - currentLevel)
  /\ unanswered <= 1
  /\ unanswered = 1 => pc \in {"settle", "done"}

\* C11 as stated: in every call the step chosen is no larger than the
\* distance left, at most one click goes unanswered and it ends the call,
\* and the page's level is never beyond the target by more than the step of
\* that unanswered click.
C11_NoOvershoot ==
  pc # "start" => StepWithinDistance /\ Passed <= MaxStep * unanswered

\* C11 amended: in every call the step chosen is no larger than the
\* distance left, at most one click goes unanswered and it ends the call;
\* a click made while the readout shows the page's level never takes the
\* page beyond the target, so that the first call on a loaded page, and
\* every call on a page that answers in time or not at all, never passes
\* the target.
C11_NoOvershootInSync ==
  /\ [](pc # "start" =>
          /\ StepWithinDistance
          /\ callNo = 1 \/ ~page.lossy => Passed = 0)
  /\ [][pc = "loop" /\ pc' = "poll" /\ readout = pageLevel =>
          \/ pageLevel <= pageLevel' /\ pageLevel' <= targetLevel
          \/ targetLevel <= pageLevel' /\ pageLevel' <= pageLevel]_vars

C11_Witness ==
  /\ pc = "done" /\ callNo = 1 /\ page.lossy /\ unanswered = 1 /\ clicks = 1
  /\ firstLevel = 24 /\ targetLevel = 25 /\ pageLevel = 25 /\ actual_level = 24

\* The attempts that ran to their own commit (line 334): the last attempt
\* of every call that returned True.
CompletedAttempts ==
  {n \in 1..Len(loads) :
     \E k \in 1..Len(log) :
       /\ log[k].ok
       /\ loads[n] = log[k].url
       /\ \A m \in AttemptsOf(log[k].url) : m <= n}

\* C12: every effect, hint and event row in the committed store was
\* written by an attempt that ran to its own commit: no commit of a later
\* attempt, of the same item or of another, makes durable what a failed
\* attempt left uncommitted.
C12_PerItemTransactions ==
  \A tr \in StoredRows : tr[2].by \in CompletedAttempts

\* The card row of the attempt under way.
CardRow == CHOOSE c \in conn.cards : c.card_id = card_id

\* The key levels of a card by its rarity.
LevelsOfRarity(rarity) == IF rarity = "SSR" THEN <<1, 25, 40, 50>> ELSE <<1, 25, 40>>

\* C13: the set_level calls of a card ask, one call per level and in this
\* order, for 1, 25, 40, 50 when the card is an SSR and for 1, 25, 40 when
\* it is an SR or an R, which are the key levels up to its max_level; and
\* all of them are asked for.
C13_KeyLevels ==
  /\ [](/\ callNo = Len(requested)
        /\ Len(requested) <= Len(LevelsOfRarity(CardRow.rarity))
        /\ \A n \in 1..Len(requested) : requested[n] = LevelsOfRarity(CardRow.rarity)[n]
        /\ pc # "idle" => targetLevel = requested[Len(requested)]
        /\ {requested[n] : n \in 1..Len(requested)} \subseteq
             {l \in KeyLevelSet : l <= CardRow.max_level}
        /\ rpc = "hints" =>
             /\ requested = LevelsOfRarity(CardRow.rarity)
             /\ {requested[n] : n \in 1..Len(requested)} =
                  {l \in KeyLevelSet : l <= CardRow.max_level})
  /\ <>(rpc = "hints")

C13_Witness ==
  /\ rpc = "hints" /\ CardRow.rarity = "SR" /\ max_level = 45
  /\ requested = <<1, 25, 40>> /\ callNo = 3

\* C14: effect rows are only written in a step taken when the set_level
\* call of the pass has returned, one pass per call, and every row written
\* carries the level that call returned, whatever level was asked for.
C14_StepperBeforeExtractor ==
  [][conn'.effects # conn.effects =>
       /\ pc = "done" /\ pc' = "idle"
       /\ actual_level = getLevel(readout)
       /\ Len(conn'.effects) > Len(conn.effects)
       /\ SubSeq(conn'.effects, 1, Len(conn.effects)) = conn.effects
       /\ \A n \in (Len(conn.effects) + 1)..Len(conn'.effects) :
            /\ conn'.effects[n].level = actual_level
            /\ conn'.effects[n].card_id = card_id]_vars

\* An SSR card on a page whose buttons end at 40: the pass that asked for
\* 50 stored its rows under 40.
C14_Witness ==
  /\ rpc = "hints" /\ requested = <<1, 25, 40, 50>> /\ page.cap = 40
  /\ actual_level = 40 /\ targetLevel = 50
  /\ \A n \in 1..Len(conn.effects) : conn.effects[n].level # 50
  /\ conn.effects[Len(conn.effects)].level = 40

Rarities == {"R", "SR", "SSR"}
CardTypes == {TypeNames[n] : n \in 1..Len(TypeNames)} \cup {"Unknown"}

\* C15: whatever the rarity and type images, the rarity parser gives R, SR
\* or SSR (R for none or an unknown one), the type parser one of the seven
\* types or Unknown, and every card row, pending or committed, holds such
\* a rarity and type with max_level 50 for SSR, 45 for SR and 40 for R.
C15_CardWellFormed ==
  /\ \A r \in RaritySources :
       /\ parse_rarity_from_image(r) \in Rarities
       /\ (\A n \in 1..Len(RarityKeys) : ~Contains(r, RarityKeys[n]))
            => parse_rarity_from_image(r) = "R"
  /\ parse_rarity_from_image(<<"utx_ico", "rarity_01">>) = "R"
  /\ parse_rarity_from_image(<<"utx_ico", "rarity_02">>) = "SR"
  /\ parse_rarity_from_image(<<"utx_ico", "rarity_03">>) = "SSR"
  /\ \A t \in TypeSources :
       /\ parse_type_from_image(t) \in CardTypes
       /\ (\A n \in 1..Len(TypeKeys) : ~Contains(t, TypeKeys[n]))
            => parse_type_from_image(t) = "Unknown"
  /\ \A c \in conn.cards \cup disk.cards :
       /\ c.rarity \in Rarities
       /\ c.card_type \in CardTypes
       /\ c.rarity = parse_rarity_from_image(site[c.url].rarityImgSrc)
       /\ c.card_type = parse_type_from_image(site[c.url].typeImgSrc)
       /\ c.max_level = (IF c.rarity = "SSR" THEN 50
                         ELSE IF c.rarity = "SR" THEN 45 ELSE 40)

\* A card whose rarity image has an unknown number and whose type image is
\* missing is stored as an R of type Unknown with max_level 40.
C15_Witness ==
  /\ rpc = "finished" /\ success_count = 1
  /\ site[1].rarityImgSrc = <<"utx_ico", "rarity_04">> /\ site[1].typeImgSrc = <<>>
  /\ \E c \in disk.cards :
       c.url = 1 /\ c.rarity = "R" /\ c.card_type = "Unknown" /\ c.max_level = 40

\* C19: a card row has its image_path set only when the art was saved; an
\* attempt whose page loaded with a name goes on to the key levels whatever
\* became of the art download, in the same attempt and with nothing raised;
\* and a call in which nothing raised returns True at its first attempt.
C19_ArtFailureNonFatal ==
  /\ [](/\ \A c \in conn.cards \cup disk.cards :
             c.image_path <=> (site[c.url].art = "saved")
        /\ \A k \in 1..Len(log) :
             log[k].raised = 0 /\ ~site[log[k].url].title_empty =>
               log[k].ok /\ log[k].tries = 1)
  /\ [][rpc = "attempt" /\ ~site[url].title_empty /\ raises' = raises =>
          /\ rpc' = "levels"
          /\ attempt' = attempt
          /\ i' = i
          /\ fail_count' = fail_count
          /\ \E c \in disk'.cards :
               /\ c.url = url /\ c.card_id = card_id'
               /\ c.image_path = (site[url].art = "saved")]_vars

\* The download timed out: the card is stored at the first attempt, with no
\* image_path.
C19_Witness ==
  /\ rpc = "finished" /\ site[1].art = "timeout"
  /\ success_count = 1 /\ fail_count = 0 /\ log[1].ok /\ log[1].tries = 1
  /\ \E c \in disk.cards : c.url = 1 /\ ~c.image_path
  /\ EffectsOfUrl(1) # {}

(***************************************************************************)
(* The updater's version comparator, src/updater/update_checker.py.  A     *)
(* version string is a sequence of characters.                             *)
(***************************************************************************)
Digits == <<"0", "1", "2", "3", "4", "5", "6", "7", "8", "9">>

IsDigit(c) == \E d \in 1..Len(Digits) : Digits[d] = c

DigitValue(c) == (CHOOSE d \in 1..Len(Digits) : Digits[d] = c) - 1

\* str.lstrip(c): every leading c is removed.
RECURSIVE lstrip(_, _)
lstrip(s, c) == IF s # <<>> /\ Head(s) = c THEN lstrip(Tail(s), c) ELSE s

\* str.split(sep): the pieces between the separators, empty pieces kept.
RECURSIVE split(_, _)
split(s, sep) ==
  IF \A k \in 1..Len(s) : s[k] # sep
    THEN <<s>>
    ELSE LET k == CHOOSE k \in 1..Len(s) :
                    s[k] = sep /\ \A j \in 1..(k - 1) : s[j] # sep
         IN <<SubSeq(s, 1, k - 1)>> \o split(SubSeq(s, k + 1, Len(s)), sep)

\* int(w) raises ValueError unless w is a run of digits, with or without a
\* sign before it.
Unsigned(w) == IF w # <<>> /\ Head(w) \in {"+", "-"} THEN Tail(w) ELSE w

IsInt(w) == Unsigned(w) # <<>> /\ \A k \in 1..Len(Unsigned(w)) : IsDigit(Unsigned(w)[k])

RECURSIVE DecimalValue(_)
DecimalValue(w) ==
  IF w = <<>> THEN 0
  ELSE 10 * DecimalValue(SubSeq(w, 1, Len(w) - 1)) + DigitValue(w[Len(w)])

int(w) == IF w # <<>> /\ Head(w) = "-" THEN 0 - DecimalValue(Unsigned(w))
          ELSE DecimalValue(Unsigned(w))

\* A faulty variant: the suffix is kept, so that the patch of "2.0.0-beta"
\* is no integer.
parse_version_suffixed(version_str) ==
  LET parts == split(lstrip(lstrip(version_str, "v"), "V"), ".")
  IN IF Len(parts) >= 3 /\ \A k \in 1..3 : IsInt(parts[k])
       THEN <<int(parts[1]), int(parts[2]), int(parts[3])>>
       ELSE <<0, 0, 0>>

\* Lines 18-40.
parse_version(version_str) ==
  LET stripped == lstrip(lstrip(version_str, "v"), "V")
      core == IF \E k \in 1..Len(stripped) : stripped[k] = "-"
                THEN split(stripped, "-")[1] ELSE stripped
      found == split(core, ".")
      parts == IF Len(found) < 3
                 THEN found \o [k \in 1..(3 - Len(found)) |-> <<"0">>]
                 ELSE found
  IN IF \A k \in 1..3 : IsInt(parts[k])
       THEN <<int(parts[1]), int(parts[2]), int(parts[3])>>
       ELSE <<0, 0, 0>>

\* Python's order of tuples of three integers.
TupleLess(a, b) ==
  \/ a[1] < b[1]
  \/ a[1] = b[1] /\ a[2] < b[2]
  \/ a[1] = b[1] /\ a[2] = b[2] /\ a[3] < b[3]

\* Lines 43-58.
compare_versions(local, remote) ==
  LET local_tuple == parse_version(local)
      remote_tuple == parse_version(remote)
  IN IF TupleLess(local_tuple, remote_tuple) THEN 0 - 1
     ELSE IF TupleLess(remote_tuple, local_tuple) THEN 1
     ELSE 0

(***************************************************************************)
(* The version strings compared: every triple over VersionParts written    *)
(* as major.minor.patch, bare or with a leading v, with or without a       *)
(* suffix, and a few strings of other shapes.  `triple` is what the string *)
(* was written from (<<>> for the other shapes).                           *)
(***************************************************************************)
VersionParts == {0, 2, 10}

RECURSIVE Decimal(_)
Decimal(n) == IF n < 10 THEN <<Digits[n + 1]>>
              ELSE Decimal(n \div 10) \o <<Digits[(n % 10) + 1]>>

Written(prefix, t, suffix) ==
  [text |-> prefix \o Decimal(t[1]) \o <<".">> \o Decimal(t[2]) \o <<".">>
            \o Decimal(t[3]) \o suffix,
   triple |-> t]

VersionPrefixes == {<<>>, <<"v">>}
VersionSuffixes == {<<>>, <<"-", "r", "c", ".", "1">>}

SemanticVersions ==
  {Written(p, t, x) : p \in VersionPrefixes,
                      t \in VersionParts \X VersionParts \X VersionParts,
                      x \in VersionSuffixes}

OtherVersions ==
  {[text |-> w, triple |-> <<>>] :
     w \in { <<>>,
             <<"2", ".", "1", "0">>,
             <<"V", "2", ".", "0", ".", "1", "0">>,
             <<"2", ".", "0", ".", "1", "0", ".", "2">>,
             <<"2", ".", "0", ".", "0", "+", "b">>,
             <<"0", "2", ".", "0", ".", "0">>,
             <<"2", ".", ".", "0">>,
             <<"V", "v", "2", ".", "0", ".", "0">>,
             <<"b", "e", "t", "a">> }}

VersionInputs == SemanticVersions \cup OtherVersions

\* check_for_updates calls compare_versions(VERSION, latest_version).
InitVersion ==
  /\ \E a \in VersionInputs, b \in VersionInputs :
       upd = [at |-> "called", local |-> a.text, remote |-> b.text,
              written |-> <<a.triple, b.triple>>, verdict |-> 0]
  /\ FxIdle
  /\ DeckIdle
  /\ DlgIdle
  /\ ScrapeIdle
  /\ StepIdle

Compare ==
  /\ upd.at = "called"
  /\ upd' = [upd EXCEPT !.at = "returned",
                        !.verdict = compare_versions(upd.local, upd.remote)]
  /\ UNCHANGED <<stepVars, scrapeVars, fx, deck, dlg>>

VersionNext == Compare

VersionSpec == InitVersion /\ [][VersionNext]_vars

\* The order of the triples the strings were written from.
OrderOf(a, b) == IF TupleLess(a, b) THEN 0 - 1 ELSE IF TupleLess(b, a) THEN 1 ELSE 0

SemanticTexts == {v.text : v \in {w \in SemanticVersions : w.triple[1] # 10}}

\* C16: compare_versions returns -1, 0 or 1; for strings written as
\* [v]major.minor.patch[-suffix] it is the order of the triples, whatever
\* the prefix and the suffix; the result is antisymmetric, it is 0 exactly
\* when the parsed triples are equal, and it is transitive.
C16_VersionOrder ==
  upd.at = "returned" =>
    /\ upd.verdict \in {0 - 1, 0, 1}
    /\ (upd.written[1] # <<>> /\ upd.written[2] # <<>>
          => upd.verdict = OrderOf(upd.written[1], upd.written[2]))
    /\ upd.verdict = 0 - compare_versions(upd.remote, upd.local)
    /\ (upd.verdict = 0 <=> parse_version(upd.local) = parse_version(upd.remote))
    /\ \A c \in SemanticTexts :
         /\ upd.verdict <= 0 /\ compare_versions(upd.remote, c) <= 0
              => compare_versions(upd.local, c) <= 0
         /\ upd.verdict = 0 - 1 /\ compare_versions(upd.remote, c) <= 0
              => compare_versions(upd.local, c) = 0 - 1

\* "v2.0.10-rc.1" against "2.0.2": the prefix and the suffix are ignored
\* and 10 is above 2.
C16_Witness ==
  /\ upd.at = "returned"
  /\ upd.local = <<"v", "2", ".", "0", ".", "1", "0", "-", "r", "c", ".", "1">>
  /\ upd.remote = <<"2", ".", "0", ".", "2">>
  /\ upd.verdict = 1

(***************************************************************************)
(* extract_effects, lines 421-520, on the text it reads.  A text is a      *)
(* sequence of words: an effect label (no label of the pattern table is    *)
(* part of another, so a label is one word), a run of digits, "%", "Lv",   *)
(* a space, a newline, "Unlocked at level".                                *)
(***************************************************************************)
Blank == {" ", "\n"}
NumberWords == {"2", "5", "10", "30"}

RECURSIVE trimStart(_)
trimStart(text) ==
  IF text # <<>> /\ Head(text) \in Blank THEN trimStart(Tail(text)) ELSE text

RECURSIVE trimEnd(_)
trimEnd(text) ==
  IF text # <<>> /\ text[Len(text)] \in Blank
    THEN trimEnd(SubSeq(text, 1, Len(text) - 1)) ELSE text

\* String.trim()
trim(text) == trimEnd(trimStart(text))

\* String.includes()
includes(text, word) == \E k \in 1..Len(text) : text[k] = word

\* Line 434: text.split('\n').join(' ')
fullTextOf(text) == [k \in 1..Len(text) |-> IF text[k] = "\n" THEN " " ELSE text[k]]

\* Lines 436-482.  `form` is the group of the regex: (\d+), (\d+%?),
\* Lv\s*(\d+) or (.*).
Pattern(label, form, name) == [label |-> label, form |-> form, name |-> name]

patterns ==
  << Pattern("Speed Bonus", "digits", "Speed Bonus"),
     Pattern("Stamina Bonus", "digits", "Stamina Bonus"),
     Pattern("Power Bonus", "digits", "Power Bonus"),
     Pattern("Guts Bonus", "digits", "Guts Bonus"),
     Pattern("Wisdom Bonus", "digits", "Wisdom Bonus"),
     Pattern("Wit Bonus", "digits", "Wisdom Bonus"),
     Pattern("Skill Pts Bonus", "digits", "Skill Pts Bonus"),
     Pattern("Initial Speed", "digits", "Initial Speed"),
     Pattern("Initial Stamina", "digits", "Initial Stamina"),
     Pattern("Initial Power", "digits", "Initial Power"),
     Pattern("Initial Guts", "digits", "Initial Guts"),
     Pattern("Initial Wisdom", "digits", "Initial Wisdom"),
     Pattern("Initial Wit", "digits", "Initial Wisdom"),
     Pattern("Friendship Bonus", "percent", "Friendship Bonus"),
     Pattern("Mood Effect", "percent", "Mood Effect"),
     Pattern("Motivation Effect", "percent", "Motivation Effect"),
     Pattern("Training Effectiveness", "percent", "Training Effectiveness"),
     Pattern("Race Bonus", "percent", "Race Bonus"),
     Pattern("Fan Bonus", "percent", "Fan Bonus"),
     Pattern("Hint Rate", "percent", "Hint Rate"),
     Pattern("Hint Frequency", "percent", "Hint Rate"),
     Pattern("Hint Lv Up", "percent", "Hint Lv Up"),
     Pattern("Hint Levels", "lv", "Hint Lv Up"),
     Pattern("Starting Bond", "digits", "Starting Bond"),
     Pattern("Initial Friendship Gauge", "digits", "Starting Bond"),
     Pattern("Specialty Rate", "percent", "Specialty Rate"),
     Pattern("Specialty Priority", "digits", "Specialty Rate"),
     Pattern("Race Status", "digits", "Race Status"),
     Pattern("Energy Discount", "percent", "Energy Discount"),
     Pattern("Wit Friendship Recovery", "digits", "Wisdom Friendship Recovery"),
     Pattern("Unique Effect", "rest", "Unique Effect") >>

\* Lines 497-503.
simplePatterns ==
  <<"Friendship Bonus", "Mood Effect", "Race Bonus", "Fan Bonus",
    "Training Effectiveness">>

\* \s* from position k on: the position of the first word that is no space.
RECURSIVE SkipBlank(_, _)
SkipBlank(text, k) ==
  IF k <= Len(text) /\ text[k] \in Blank THEN SkipBlank(text, k + 1) ELSE k

NoMatch == [hit |-> FALSE, value |-> <<>>]
Hit(v) == [hit |-> TRUE, value |-> v]

IsNumber(text, k) == k <= Len(text) /\ text[k] \in NumberWords

\* What the group of the regex captures at position k.
Capture(text, k, form) ==
  CASE form = "digits" ->
         IF IsNumber(text, k) THEN Hit(<<text[k]>>) ELSE NoMatch
    [] form = "percent" ->
         IF IsNumber(text, k)
           THEN Hit(IF k < Len(text) /\ text[k + 1] = "%"
                      THEN <<text[k], "%">> ELSE <<text[k]>>)
           ELSE NoMatch
    [] form = "lv" ->
         IF k <= Len(text) /\ text[k] = "Lv" /\ IsNumber(text, SkipBlank(text, k + 1))
           THEN Hit(<<text[SkipBlank(text, k + 1)]>>) ELSE NoMatch
    [] form = "rest" -> Hit(SubSeq(text, k, Len(text)))

\* String.match(p.regex): the leftmost place where the label is followed
\* by its group.
match(text, p) ==
  LET places == {k \in 1..Len(text) :
                   text[k] = p.label /\ Capture(text, SkipBlank(text, k + 1), p.form).hit}
  IN IF places = {} THEN NoMatch
     ELSE Capture(text,
                  SkipBlank(text, (CHOOSE k \in places : \A j \in places : k <= j) + 1),
                  p.form)

\* A faulty variant: no name is ever found in the list.
some_never(effects, name) == FALSE

\* effects.some(e => e.name === name)
some(effects, name) == \E n \in 1..Len(effects) : effects[n].name = name

\* A faulty variant: the effect is pushed under the label that matched.
RECURSIVE forPatterns_literal(_, _, _)
forPatterns_literal(effects, fullText, n) ==
  IF n > Len(patterns) THEN effects
  ELSE forPatterns_literal(
         IF match(fullText, patterns[n]).hit /\ ~some(effects, patterns[n].label)
           THEN Append(effects, [name |-> patterns[n].label,
                                 value |-> match(fullText, patterns[n]).value])
           ELSE effects,
         fullText, n + 1)

\* A faulty variant: a later match of a name replaces the value kept.
RECURSIVE forPatterns_overwrite(_, _, _)
forPatterns_overwrite(effects, fullText, n) ==
  IF n > Len(patterns) THEN effects
  ELSE forPatterns_overwrite(
         IF ~match(fullText, patterns[n]).hit THEN effects
         ELSE IF some(effects, patterns[n].name)
           THEN [k \in 1..Len(effects) |->
                   IF effects[k].name = patterns[n].name
                     THEN [effects[k] EXCEPT !.value = match(fullText, patterns[n]).value]
                     ELSE effects[k]]
           ELSE Append(effects, [name |-> patterns[n].name,
                                 value |-> match(fullText, patterns[n]).value]),
         fullText, n + 1)

\* Lines 485-490: the patterns from the n-th on, on one container's text.
\* The list as it stands after the n-th pattern is a value, pushed, before
\* the next pattern is tried.
RECURSIVE forPatterns(_, _, _)
forPatterns(effects, fullText, n) ==
  IF n > Len(patterns) THEN effects
  ELSE CHOOSE out \in
         {forPatterns(pushed, fullText, n + 1) :
            pushed \in
              {IF match(fullText, patterns[n]).hit /\ ~some(effects, patterns[n].name)
                 THEN Append(effects, [name |-> patterns[n].name,
                                       value |-> match(fullText, patterns[n]).value])
                 ELSE effects}} : TRUE

\* Lines 430-491: Method 1, the containers in document order.
RECURSIVE forContainers(_, _)
forContainers(effects, containers) ==
  IF containers = <<>> THEN effects
  ELSE CHOOSE out \in
         {forContainers(pushed, Tail(containers)) :
            pushed \in
              {IF includes(trim(Head(containers)), "Unlocked at level")
                 THEN effects
                 ELSE forPatterns(effects, fullTextOf(trim(Head(containers))), 1)}} : TRUE

\* /^(label)\s*(\d+%?)$/ on a trimmed line.
matchLine(trimmed, label) ==
  IF trimmed # <<>> /\ trimmed[1] = label
       /\ Capture(trimmed, SkipBlank(trimmed, 2), "percent").hit
       /\ SkipBlank(trimmed, 2)
            + Len(Capture(trimmed, SkipBlank(trimmed, 2), "percent").value) - 1
          = Len(trimmed)
    THEN Capture(trimmed, SkipBlank(trimmed, 2), "percent")
    ELSE NoMatch

\* Lines 507-513: the simple patterns from the n-th on, on one line.
RECURSIVE forSimplePatterns(_, _, _)
forSimplePatterns(effects, trimmed, n) ==
  IF n > Len(simplePatterns) THEN effects
  ELSE CHOOSE out \in
         {forSimplePatterns(pushed, trimmed, n + 1) :
            pushed \in
              {IF matchLine(trimmed, simplePatterns[n]).hit
                    /\ ~some(effects, simplePatterns[n])
                 THEN Append(effects, [name |-> simplePatterns[n],
                                       value |-> matchLine(trimmed, simplePatterns[n]).value])
                 ELSE effects}} : TRUE

\* Lines 505-515.
RECURSIVE forLines(_, _)
forLines(effects, lines) ==
  IF lines = <<>> THEN effects
  ELSE CHOOSE out \in
         {forLines(pushed, Tail(lines)) :
            pushed \in {forSimplePatterns(effects, trim(Head(lines)), 1)}} : TRUE

\* A faulty variant: the line scan runs whatever the block scan found.
evaluate_always(containers, bodyLines) ==
  forLines(forContainers(<<>>, containers), bodyLines)

\* Lines 424-518: the function page.evaluate runs, on the containers that
\* [class*="effect__"] selects and the lines of document.body.innerText.
evaluate(containers, bodyLines) ==
  LET effects == forContainers(<<>>, containers)
  IN IF Len(effects) = 0 THEN forLines(<<>>, bodyLines) ELSE effects

(***************************************************************************)
(* The pages extract_effects is run on: up to MaxBlocks containers, each   *)
(* a label and a value on the next line, and some lines of the body        *)
(* outside them.  The body's text holds the containers' lines too.         *)
(***************************************************************************)
MaxBlocks == 2
MaxPasses == 2

Block(label, value) == <<label, "\n">> \o value

BlockLabels ==
  {"Wit Bonus", "Wisdom Bonus", "Initial Wit", "Initial Wisdom",
   "Hint Frequency", "Hint Rate", "Race Bonus"}

PageBlocks ==
  {Block(l, <<n>>) : l \in BlockLabels, n \in {"5", "10"}}
    \cup {Block(l, <<"10", "%">>) : l \in {"Hint Frequency", "Hint Rate", "Race Bonus"}}
    \cup {Block("Hint Levels", <<"Lv", " ", "2">>),
          <<"Race Bonus", " ", "10", "%", "\n", "Unlocked at level", " ", "30">>,
          <<"\n", "Wit Bonus", "\n", "10", "\n", "Wisdom Bonus", "\n", "5", "\n">>}

PageBodies ==
  { <<>>,
    << <<"Race Bonus", " ", "5", "%">> >>,
    << <<" ", "Fan Bonus", "10", " ">>, <<"Race Bonus", " ", "5", "%">>,
       <<"Race Bonus", " ", "10", "%">>, <<"Fan Bonus", " ", "5", " ", "%">> >> }

RECURSIVE LinesOf(_)
LinesOf(containers) ==
  IF containers = <<>> THEN <<>>
  ELSE split(Head(containers), "\n") \o LinesOf(Tail(containers))

InitEffects ==
  /\ \E n \in 0..MaxBlocks :
       \E cs \in [1..n -> PageBlocks], outside \in PageBodies :
         fx = [containers |-> cs, bodyLines |-> LinesOf(cs) \o outside,
               effects |-> <<>>, previous |-> <<>>, passes |-> 0]
  /\ UpdIdle
  /\ DeckIdle
  /\ DlgIdle
  /\ ScrapeIdle
  /\ StepIdle

\* Line 423: extract_effects runs on the page; it changes nothing on it.
ExtractPass ==
  /\ fx.passes < MaxPasses
  /\ fx' = [fx EXCEPT !.effects = evaluate(fx.containers, fx.bodyLines),
                      !.previous = fx.effects,
                      !.passes = @ + 1]
  /\ UNCHANGED <<stepVars, scrapeVars, upd, deck, dlg>>

EffectsNext == ExtractPass

EffectsSpec == InitEffects /\ [][EffectsNext]_vars

\* C17: the list extract_effects returns holds no name twice, and a second
\* run on the unchanged page returns the list of the first.
C17_DuplicateFreeIdempotent ==
  /\ fx.passes >= 1 =>
       \A m, n \in 1..Len(fx.effects) :
         fx.effects[m].name = fx.effects[n].name => m = n
  /\ fx.passes >= 2 => fx.effects = fx.previous

\* A "Wit Bonus" block and a "Wisdom Bonus" block on one page, read twice:
\* one Wisdom Bonus, the first.
C17_Witness ==
  /\ fx.passes = 2
  /\ fx.containers = <<Block("Wit Bonus", <<"10">>), Block("Wisdom Bonus", <<"5">>)>>
  /\ fx.effects = <<[name |-> "Wisdom Bonus", value |-> <<"10">>]>>
  /\ fx.previous = fx.effects

\* The synonyms the site uses and the names they are stored under.
Canonical ==
  [l \in {"Wit Bonus", "Wisdom Bonus", "Initial Wit", "Initial Wisdom",
          "Hint Frequency", "Hint Rate"} |->
     CASE l \in {"Wit Bonus", "Wisdom Bonus"} -> "Wisdom Bonus"
       [] l \in {"Initial Wit", "Initial Wisdom"} -> "Initial Wisdom"
       [] l \in {"Hint Frequency", "Hint Rate"} -> "Hint Rate"]

\* C18: a block labelled with a synonym and a block labelled with the
\* canonical name give the same pair, the canonical name with the block's
\* value: whatever follows it on the page, the first effect of a page whose
\* first block is "Wit Bonus 10" or "Wisdom Bonus 10" is (Wisdom Bonus, 10),
\* and likewise for Hint Frequency and Initial Wit.
C18_AliasCollapsing ==
  fx.passes >= 1 /\ fx.containers # <<>> /\ fx.containers[1][1] \in DOMAIN Canonical =>
    /\ fx.effects # <<>>
    /\ fx.effects[1] = [name |-> Canonical[fx.containers[1][1]],
                        value |-> SubSeq(fx.containers[1], 3, Len(fx.containers[1]))]
    /\ Len(fx.containers) = 1 => Len(fx.effects) = 1

C18_Witness ==
  /\ fx.passes = 1
  /\ fx.containers = <<Block("Hint Frequency", <<"10", "%">>)>>
  /\ fx.effects = <<[name |-> "Hint Rate", value |-> <<"10", "%">>]>>

\* C20: when scrape_all_support_links returns no URL, run_scraper does not
\* complete normally: it never reaches its end (the connection closed, the
\* totals printed) with an empty list of links.
C20_ZeroUrlsHardStop == rpc = "finished" => links # <<>>

(***************************************************************************)
(* What a page offers, told without the loops of extract_effects: the      *)
(* containers that are not locked, the patterns that match in one of       *)
(* them, and the lines of the body that lie outside every container.       *)
(***************************************************************************)
Locked(container) == includes(trim(container), "Unlocked at level")

\* The patterns of the table that match in the container and carry the name.
Yielding(container, name) ==
  {n \in 1..Len(patterns) :
     patterns[n].name = name /\ match(fullTextOf(trim(container)), patterns[n]).hit}

\* The containers, by position, that are not locked and yield the name.
Offering(containers, name) ==
  {k \in 1..Len(containers) :
     ~Locked(containers[k]) /\ Yielding(containers[k], name) # {}}

Least(S) == CHOOSE k \in S : \A j \in S : k <= j

\* The value of the first container in document order that yields the
\* name, by the earliest pattern of the table that matches in it.
FirstSeen(containers, name) ==
  LET c == containers[Least(Offering(containers, name))]
  IN match(fullTextOf(trim(c)), patterns[Least(Yielding(c, name))]).value

\* The names some unlocked container yields.
PrimaryNames(containers) ==
  UNION {{patterns[n].name :
            n \in {m \in 1..Len(patterns) :
                     match(fullTextOf(trim(containers[k])), patterns[m]).hit}} :
           k \in {j \in 1..Len(containers) : ~Locked(containers[j])}}

NamesOf(effects) == {effects[n].name : n \in 1..Len(effects)}

\* C21: when the block scan finds effects, the list holds every name some
\* unlocked block yields, each with the value of the first block in
\* document order that yields it and, in that block, of the earliest
\* matching pattern of the table.
C21_FirstSeenWins ==
  fx.passes >= 1 =>
    \A yielded \in {PrimaryNames(fx.containers)} :
      yielded # {} =>
        /\ NamesOf(fx.effects) = yielded
        /\ \A n \in 1..Len(fx.effects) :
             fx.effects[n].value = FirstSeen(fx.containers, fx.effects[n].name)

\* A block that holds "Wit Bonus 10" before "Wisdom Bonus 5", followed by a
\* block "Wisdom Bonus 10": the value kept is 5, of the first block and of
\* the earlier pattern.
C21_Witness ==
  /\ fx.passes >= 1
  /\ fx.containers =
       << <<"\n", "Wit Bonus", "\n", "10", "\n", "Wisdom Bonus", "\n", "5", "\n">>,
          Block("Wisdom Bonus", <<"10">>) >>
  /\ fx.effects = <<[name |-> "Wisdom Bonus", value |-> <<"5">>]>>

\* The lines of the body that belong to no container.
OutsideLines(page_) ==
  SubSeq(page_.bodyLines, Len(LinesOf(page_.containers)) + 1, Len(page_.bodyLines))

\* The lines of the body that belong to no locked container.
RECURSIVE UnlockedLinesOf(_)
UnlockedLinesOf(containers) ==
  IF containers = <<>> THEN <<>>
  ELSE (IF Locked(Head(containers)) THEN <<>> ELSE split(Head(containers), "\n"))
         \o UnlockedLinesOf(Tail(containers))

\* The pair is what one of the lines gives under its simple pattern.
OnLine(lines, e) ==
  \E k \in 1..Len(lines) : matchLine(trim(lines[k]), e.name) = Hit(e.value)

\* The pair is what a pattern of the table gives in an unlocked container.
InUnlocked(containers, e) ==
  \E k \in 1..Len(containers) :
    /\ ~Locked(containers[k])
    /\ \E n \in Yielding(containers[k], e.name) :
         match(fullTextOf(trim(containers[k])), patterns[n]).value = e.value

\* C22: every pair extract_effects returns can be read off text outside the
\* locked blocks: a container without "Unlocked at level", or a line of the
\* body that lies in no locked container.
C22_LockedNeverExtracted ==
  fx.passes >= 1 =>
    \A n \in 1..Len(fx.effects) :
      \/ InUnlocked(fx.containers, fx.effects[n])
      \/ OnLine(UnlockedLinesOf(fx.containers) \o OutsideLines(fx), fx.effects[n])

simpleNames == {simplePatterns[n] : n \in 1..Len(simplePatterns)}

\* C23: when some unlocked block yields an effect the list holds the names
\* the blocks yield and no other, each pair a match of the block scan; when
\* none does, every pair is a line of the body under one of the five
\* simple patterns, and the list is empty only if no line matches one.
C23_FallbackTier ==
  fx.passes >= 1 =>
    \A yielded \in {PrimaryNames(fx.containers)} :
      IF yielded # {}
        THEN /\ NamesOf(fx.effects) = yielded
             /\ \A n \in 1..Len(fx.effects) : InUnlocked(fx.containers, fx.effects[n])
        ELSE /\ NamesOf(fx.effects) \subseteq simpleNames
             /\ \A n \in 1..Len(fx.effects) : OnLine(fx.bodyLines, fx.effects[n])
             /\ \A name \in simpleNames :
                  (\E k \in 1..Len(fx.bodyLines) :
                     matchLine(trim(fx.bodyLines[k]), name).hit)
                    => name \in NamesOf(fx.effects)

\* A page with no effect container and four lines: the line scan gives Fan
\* Bonus and Race Bonus, each once.
C23_Witness ==
  /\ fx.passes >= 1
  /\ fx.containers = <<>>
  /\ fx.effects = <<[name |-> "Fan Bonus", value |-> <<"10">>],
                    [name |-> "Race Bonus", value |-> <<"5", "%">>]>>

\* The rows of the three tables the connection sees, of whatever table.
PendingRows == Range(conn.effects) \cup Range(conn.hints) \cup Range(conn.events)

C25_ReferentialIntegrity ==
  \A tr \in StoredRows : \E c \in disk.cards : c.card_id = tr[2].card_id

\* C26: the card_id committed for a URL never changes: whatever step the
\* scraper takes, a URL that has a row keeps the card_id of that row.
C26_CardIdStable ==
  [][\A c \in disk.cards : \A d \in disk'.cards :
       c.url = d.url => c.card_id = d.card_id]_vars

(***************************************************************************)
(* The deck builder, src/gui/deck_builder.py, on the tables of             *)
(* src/db/db_queries.py.  The library is what a run of the scraper on      *)
(* responsive pages leaves: each card with the effect rows of its key      *)
(* levels.                                                                 *)
(***************************************************************************)
MaxOps == 3

LibraryRarity == <<"SSR", "SR", "R", "SSR", "SSR", "SSR", "SSR">>

\* support_cards: card_id, rarity, max_level.
LibraryCards ==
  {[card_id |-> c, rarity |-> LibraryRarity[c],
    max_level |-> get_max_level_for_rarity(LibraryRarity[c])] : c \in 1..Len(LibraryRarity)}

LibraryIds == {c.card_id : c \in LibraryCards}

MaxLevelOf(cid) == (CHOOSE c \in LibraryCards : c.card_id = cid).max_level

\* support_effects: the rows scrape_effects_key_levels writes for each card.
LibraryEffects ==
  UNION {Range(KeyLevelRows(
                 ActualLevels(ItemPage([cap |-> c.max_level]),
                              levels_to_scrape(c.max_level), c.max_level),
                 c.card_id, c.card_id)) : c \in LibraryCards}

\* db_queries.py lines 112-124.
get_effects_at_level(cid, level) ==
  {r \in LibraryEffects : r.card_id = cid /\ r.level = level}

\* deck_builder.py line 75: the values of a slot's level combobox.
LevelChoices == {50, 40, 25, 1}

\* A faulty variant: the INSERT without the DELETE before it.
add_card_to_deck_keep(rows, deck_id, cid, slot_position, level) ==
  Append(rows, [deck_id |-> deck_id, card_id |-> cid,
                slot_position |-> slot_position, level |-> level])

\* db_queries.py lines 304-316.
add_card_to_deck(rows, deck_id, cid, slot_position, level) ==
  Append(SelectSeq(rows, LAMBDA r : ~(r.deck_id = deck_id /\ r.slot_position = slot_position)),
         [deck_id |-> deck_id, card_id |-> cid,
          slot_position |-> slot_position, level |-> level])

\* db_queries.py lines 318-324.
remove_card_from_deck(rows, deck_id, slot_position) ==
  SelectSeq(rows, LAMBDA r : ~(r.deck_id = deck_id /\ r.slot_position = slot_position))

\* db_queries.py lines 326-339: the deck's rows that join a card.
get_deck_cards(rows, deck_id) ==
  {r \in Range(rows) : r.deck_id = deck_id /\ r.card_id \in LibraryIds}

\* What load_deck may leave in slot p: the slot as reset, or the card and
\* level of a row at that position (the last one the loop meets; the order
\* of rows with one slot_position is not fixed by the query).
SlotLoads(d, p) ==
  LET here == {r \in get_deck_cards(d.rows, d.current_deck_id) : r.slot_position = p}
  IN IF here = {} THEN {[card_id |-> 0, level |-> d.level_var[p]]}
     ELSE {[card_id |-> r.card_id, level |-> r.level] : r \in here}

RECURSIVE LoadFrom(_, _)
LoadFrom(d, p) ==
  IF p \notin SlotPositions THEN {d}
  ELSE UNION {LoadFrom([d EXCEPT !.deck_slots[p] = c.card_id, !.level_var[p] = c.level],
                       p + 1) : c \in SlotLoads(d, p)}

\* deck_builder.py lines 346-364: the states load_deck may leave.
load_deck(d) == IF d.current_deck_id = 0 THEN {d} ELSE LoadFrom(d, 0)

FreeSlots(d) == {p \in SlotPositions : d.deck_slots[p] = 0}

\* deck_builder.py lines 384-406, for the card selected in the tree.
add_selected_to_deck(cid) ==
  /\ deck.ops < MaxOps
  /\ \E d \in {[deck EXCEPT !.ops = @ + 1]} :
       IF d.current_deck_id = 0
         THEN deck' = [d EXCEPT !.notice = "No Deck"]
       ELSE IF \E p \in SlotPositions : d.deck_slots[p] = cid
         THEN deck' = [d EXCEPT !.notice = "Duplicate Card"]
       ELSE IF FreeSlots(d) = {}
         THEN deck' = [d EXCEPT !.notice = "Deck Full"]
       ELSE deck' \in load_deck(
              [d EXCEPT !.notice = "none",
                        !.rows = add_card_to_deck(@, d.current_deck_id, cid,
                                                  Least(FreeSlots(d)), 50)])
  /\ UNCHANGED <<stepVars, scrapeVars, upd, fx, dlg>>

\* deck_builder.py lines 408-413.
remove_from_slot(index) ==
  /\ deck.ops < MaxOps
  /\ deck' = IF deck.current_deck_id # 0 /\ deck.deck_slots[index] # 0
               THEN [deck EXCEPT !.ops = @ + 1, !.notice = "none",
                                 !.rows = remove_card_from_deck(@, deck.current_deck_id, index),
                                 !.deck_slots[index] = 0]
               ELSE [deck EXCEPT !.ops = @ + 1, !.notice = "none"]
  /\ UNCHANGED <<stepVars, scrapeVars, upd, fx, dlg>>

\* deck_builder.py lines 144-145 and 415-419: the combobox of the slot
\* takes the level chosen, then the callback runs.
on_slot_level_changed(index, new_level) ==
  /\ deck.ops < MaxOps
  /\ deck' = IF deck.current_deck_id # 0 /\ deck.deck_slots[index] # 0
               THEN [deck EXCEPT !.ops = @ + 1, !.notice = "none",
                                 !.level_var[index] = new_level,
                                 !.rows = add_card_to_deck(@, deck.current_deck_id,
                                                           deck.deck_slots[index],
                                                           index, new_level)]
               ELSE [deck EXCEPT !.ops = @ + 1, !.notice = "none",
                                 !.level_var[index] = new_level]
  /\ UNCHANGED <<stepVars, scrapeVars, upd, fx, dlg>>

\* deck_builder.py lines 340-344: the deck is selected again.
on_deck_selected ==
  /\ deck.ops < MaxOps
  /\ deck.current_deck_id # 0
  /\ deck' \in load_deck([deck EXCEPT !.ops = @ + 1, !.notice = "none"])
  /\ UNCHANGED <<stepVars, scrapeVars, upd, fx, dlg>>

DeckNext ==
  \/ \E cid \in LibraryIds : add_selected_to_deck(cid)
  \/ \E index \in SlotPositions : remove_from_slot(index)
  \/ \E index \in SlotPositions, new_level \in LevelChoices :
       on_slot_level_changed(index, new_level)
  \/ on_deck_selected

\* A slot of another deck, which the operations on deck 1 leave alone.
OtherDeckRows == <<[deck_id |-> 2, card_id |-> 1, slot_position |-> 0, level |-> 40]>>

\* Deck 1 after its first k cards were added one by one (lines 399-404),
\* or no deck selected.
RECURSIVE FilledRows(_)
FilledRows(k) ==
  IF k = 0 THEN OtherDeckRows
  ELSE add_card_to_deck(FilledRows(k - 1), 1, k, k - 1, 50)

InitDeck ==
  /\ \/ deck = NoDeck
     \/ \E k \in 0..6 :
          deck \in load_deck([current_deck_id |-> 1,
                              deck_slots |-> [p \in SlotPositions |-> 0],
                              level_var |-> [p \in SlotPositions |-> 50],
                              rows |-> FilledRows(k), notice |-> "none", ops |-> 0])
  /\ UpdIdle
  /\ FxIdle
  /\ DlgIdle
  /\ ScrapeIdle
  /\ StepIdle

DeckSpec == InitDeck /\ [][DeckNext]_vars

\* The rows of the selected deck, by their place in the table.
DeckRows == {n \in 1..Len(deck.rows) : deck.rows[n].deck_id = deck.current_deck_id}

\* C27: the selected deck has at most 6 rows, at positions 0..5, one row at
\* most per position and per card, and deck_slots holds, position by
\* position, the card of the row stored there and None where there is none.
C27_DeckInvariant ==
  deck.current_deck_id # 0 =>
    /\ Cardinality(DeckRows) <= 6
    /\ \A n \in DeckRows : deck.rows[n].slot_position \in SlotPositions
    /\ \A m, n \in DeckRows :
         \/ m = n
         \/ /\ deck.rows[m].slot_position # deck.rows[n].slot_position
            /\ deck.rows[m].card_id # deck.rows[n].card_id
    /\ \A p \in SlotPositions :
         IF \E n \in DeckRows : deck.rows[n].slot_position = p
           THEN \E n \in DeckRows : /\ deck.rows[n].slot_position = p
                                     /\ deck.rows[n].card_id = deck.deck_slots[p]
           ELSE deck.deck_slots[p] = 0

\* A card is removed from slot 2 of the full deck, the level of slot 0 is
\* changed and a seventh card is added: it goes to slot 2.
C27_Witness ==
  /\ deck.ops = 3
  /\ Cardinality(DeckRows) = 6
  /\ deck.deck_slots[2] = 7
  /\ \E n \in DeckRows : deck.rows[n].slot_position = 0 /\ deck.rows[n].level = 25

\* C28: the level stored for a slot is at most the max_level of its card,
\* and the card has effect rows at that level.
C28_SlotLevelHasData ==
  \A n \in DeckRows :
    /\ deck.rows[n].level <= MaxLevelOf(deck.rows[n].card_id)
    /\ get_effects_at_level(deck.rows[n].card_id, deck.rows[n].level) # {}

(***************************************************************************)
(* The update dialog, src/gui/update_dialog.py: the handlers that run on   *)
(* Tk's main loop, the two background threads, and the queue of callbacks  *)
(* the threads post with dialog.after(0, ...).  Tkinter deletes, when a    *)
(* widget is destroyed, the callbacks that were posted through it and have *)
(* not run; a callback posted through it afterwards is registered anew and *)
(* runs, unless the call of after raises in the thread.                    *)
(***************************************************************************)
MaxDownloads == 2
MaxProgress == 1

\* Lines 22-53: the dialog is built and check_for_updates starts its thread.
InitDialog ==
  /\ dlg = [alive |-> TRUE, update_info |-> "none", is_downloading |-> FALSE,
            check |-> "running", threads |-> 0, queue |-> <<>>,
            close_button |-> "normal", update_button |-> "hidden",
            started |-> 0, progress |-> 0, last |-> "__init__", misuse |-> {}]
  /\ UpdIdle
  /\ FxIdle
  /\ DeckIdle
  /\ ScrapeIdle
  /\ StepIdle

\* dialog.after(0, cb) called in a thread: the callback is queued; through a
\* destroyed dialog it is queued or the call raises.
Posted(d, cb) ==
  IF d.alive THEN {[d EXCEPT !.queue = Append(@, cb)]}
  ELSE {[d EXCEPT !.queue = IF scheduled THEN Append(@, cb) ELSE @,
                  !.misuse = @ \cup {"after on a destroyed dialog"}] :
          scheduled \in BOOLEAN}

\* Line 180, in the thread: self.update_info = check_for_updates()
CheckFetch ==
  /\ dlg.check = "running"
  /\ \E info \in {"none", "info"} :
       dlg' = [dlg EXCEPT !.update_info = info, !.check = "fetched", !.last = "check"]
  /\ UNCHANGED <<stepVars, scrapeVars, upd, fx, deck>>

\* Line 181, in the thread: self.dialog.after(0, self.update_check_complete)
CheckPost ==
  /\ dlg.check = "fetched"
  /\ \E d \in Posted(dlg, "update_check_complete") :
       dlg' = [d EXCEPT !.check = "done", !.last = "check"]
  /\ UNCHANGED <<stepVars, scrapeVars, upd, fx, deck>>

\* A faulty variant: no test of is_downloading.
start_download_again ==
  /\ dlg.alive
  /\ dlg.started < MaxDownloads
  /\ dlg' = IF dlg.update_info = "none"
              THEN [dlg EXCEPT !.last = "start_download"]
              ELSE [dlg EXCEPT !.is_downloading = TRUE,
                               !.update_button = "downloading",
                               !.close_button = "disabled",
                               !.threads = @ + 1, !.started = @ + 1,
                               !.last = "start_download"]
  /\ UNCHANGED <<stepVars, scrapeVars, upd, fx, deck>>

\* Lines 219-247: start_download is called.
start_download ==
  /\ dlg.alive
  /\ dlg.started < MaxDownloads
  /\ dlg' = IF dlg.is_downloading \/ dlg.update_info = "none"
              THEN [dlg EXCEPT !.last = "start_download"]
              ELSE [dlg EXCEPT !.is_downloading = TRUE,
                               !.update_button = "downloading",
                               !.close_button = "disabled",
                               !.threads = @ + 1, !.started = @ + 1,
                               !.last = "start_download"]
  /\ UNCHANGED <<stepVars, scrapeVars, upd, fx, deck>>

\* Lines 235-240, in a download thread: progress_callback posts update_progress.
DownloadProgress ==
  /\ dlg.threads > 0
  /\ dlg.progress < MaxProgress
  /\ \E d \in Posted(dlg, "update_progress") :
       dlg' = [d EXCEPT !.progress = @ + 1, !.last = "download"]
  /\ UNCHANGED <<stepVars, scrapeVars, upd, fx, deck>>

\* Lines 242-243, in a download thread: download_update returns a path or
\* None, download_complete is posted and the thread ends.
DownloadFinish ==
  /\ dlg.threads > 0
  /\ \E cb \in {"download_complete(path)", "download_complete(None)"} :
     \E d \in Posted(dlg, cb) :
       dlg' = [d EXCEPT !.threads = @ - 1, !.last = "download"]
  /\ UNCHANGED <<stepVars, scrapeVars, upd, fx, deck>>

\* Lines 186-217: update_check_complete.  On a destroyed dialog its first
\* statement, on the progress bar, raises.
update_check_complete(d) ==
  IF ~d.alive THEN [d EXCEPT !.misuse = @ \cup {"callback on a destroyed dialog"}]
  ELSE IF d.update_info = "info" THEN [d EXCEPT !.update_button = "download"]
  ELSE d

\* Lines 249-252: update_progress; its first statement configures a widget.
update_progress(d) ==
  IF ~d.alive THEN [d EXCEPT !.misuse = @ \cup {"callback on a destroyed dialog"}]
  ELSE d

\* Lines 254-279: download_complete; the flag is cleared before the first
\* widget is configured.
download_complete(d, download_path) ==
  IF ~d.alive
    THEN [d EXCEPT !.is_downloading = FALSE,
                   !.misuse = @ \cup {"callback on a destroyed dialog"}]
    ELSE [d EXCEPT !.is_downloading = FALSE,
                   !.update_button = IF download_path THEN "install" ELSE "retry",
                   !.close_button = "normal"]

\* Tk's main loop runs the callback at the head of the queue.
RunCallback ==
  /\ dlg.queue # <<>>
  /\ \E cb \in {Head(dlg.queue)} :
     \E d \in {[dlg EXCEPT !.queue = Tail(@), !.last = cb]} :
       dlg' = CASE cb = "update_check_complete" -> update_check_complete(d)
                [] cb = "update_progress" -> update_progress(d)
                [] cb = "download_complete(path)" -> download_complete(d, TRUE)
                [] cb = "download_complete(None)" -> download_complete(d, FALSE)
  /\ UNCHANGED <<stepVars, scrapeVars, upd, fx, deck>>

\* Lines 303-307, from the Close button (lines 146-159) while it is enabled.
close ==
  /\ dlg.alive
  /\ dlg.close_button = "normal"
  /\ dlg' = [dlg EXCEPT !.alive = FALSE, !.queue = <<>>, !.last = "close"]
  /\ UNCHANGED <<stepVars, scrapeVars, upd, fx, deck>>

\* Lines 29-35: the Toplevel gets no WM_DELETE_WINDOW handler, so the window
\* manager's close button destroys it, whatever the state of the Close button.
wm_delete_window ==
  /\ dlg.alive
  /\ dlg' = [dlg EXCEPT !.alive = FALSE, !.queue = <<>>, !.last = "wm_delete_window"]
  /\ UNCHANGED <<stepVars, scrapeVars, upd, fx, deck>>

DialogNext ==
  \/ CheckFetch
  \/ CheckPost
  \/ start_download
  \/ DownloadProgress
  \/ DownloadFinish
  \/ RunCallback
  \/ close
  \/ wm_delete_window

DialogSpec == InitDialog /\ [][DialogNext]_vars

\* C29: at most one download thread runs at a time; a call of
\* start_download while is_downloading is set or update_info is missing
\* changes nothing; is_downloading is cleared by download_complete only.
C29_SingleDownload ==
  /\ [](dlg.threads <= 1)
  /\ [][dlg'.last = "start_download" /\ (dlg.is_downloading \/ dlg.update_info = "none")
          => dlg' = [dlg EXCEPT !.last = "start_download"]]_vars
  /\ [][dlg.is_downloading /\ ~dlg'.is_downloading
          => dlg'.last \in {"download_complete(path)", "download_complete(None)"}]_vars

\* A first download failed and was retried; start_download is called again
\* while the second one runs, and one thread is running.
C29_Witness ==
  /\ dlg.alive
  /\ dlg.started = 2
  /\ dlg.is_downloading
  /\ dlg.threads = 1
  /\ dlg.update_button = "downloading"
  /\ dlg.last = "start_download"

\* C30: no thread posts a callback through a destroyed dialog and no
\* callback runs against one.
C30_NoUseAfterClose == dlg.misuse = {}

====
